---- MODULE Spec2Model ----
(***************************************************************************)
(* Model of db_diagram: the layout engine                                  *)
(* (src/db_diagram/layout/networkx_layout.py, src/db_diagram/models.py),   *)
(* the generators (src/db_diagram/generators/drawio.py, miro.py) and the   *)
(* table-level UNIQUE constraints of the parser                            *)
(* (src/db_diagram/parsers/postgresql.py).                                 *)
(*                                                                         *)
(* Python strings are sequences of code points, so that formatting         *)
(* (get_qualified_table_name), str.startswith, len() and sorted() are      *)
(* computed as the code computes them.  Python's None is the value None    *)
(* below; an optional field is None or a string.                           *)
(***************************************************************************)
EXTENDS Integers, Sequences, FiniteSets, TLC

VARIABLES
    pc,                      \* position of the call of layout_schema
    schema,                  \* argument: Schema(tables, dialect)
    opts,                    \* argument: LayoutOptions
    table_dims,              \* dict qualified name -> (width, height)
    table_name_to_qualified, \* dict simple name -> list of qualified names
    g_nodes,                 \* nodes of the nx.DiGraph g
    g_edges,                 \* edges of g, a set of (source, target)
    positions,               \* dict qualified name -> (x, y)
    result,                  \* <<>> or <<the PositionedSchema returned>>
    hl_called,               \* number of calls of _hierarchical_layout in this call
    used_fallback,           \* _get_generations_with_cycles ran in this call
    prev,                    \* <<>> or <<result of the previous call on the same arguments>>
    gen_pc,                  \* position of the call of a generator
    _cell_id_counter,        \* drawio.py: the module-level counter of cell ids
    drawio,                  \* generate_drawio: cells, edges, table_id_map, column_id_map
    miro,                    \* MiroGenerator.generate: its id maps and its connector count
    board,                   \* the Miro board: the shapes and connectors created on it
    calls,                   \* concurrent calls of layout_schema: call -> position, arguments, result
    locals,                  \* the objects those calls create: frame -> dicts and graph
    parser                   \* _parse_create_table: its position and its locals

layout_vars == <<pc, schema, opts, table_dims, table_name_to_qualified, g_nodes,
                 g_edges, positions, result, hl_called, used_fallback, prev>>

generator_vars == <<gen_pc, _cell_id_counter, drawio, miro, board>>

parallel_vars == <<calls, locals>>

vars == <<layout_vars, generator_vars, parallel_vars, parser>>

-----------------------------------------------------------------------------
(* Strings *)

None == << -1 >>          \* Python's None: no string holds a negative code point

Truthy(s) == s # None /\ s # <<>>       \* bool(s) of an optional string

S_dot == <<46>>                         \* "."
S_u == <<117>>                          \* "u"   (users)
S_o == <<111>>                          \* "o"   (orders)
S_a == <<97>>                           \* "a"
S_b == <<98>>                           \* "b"
S_ab == <<97, 46, 98>>                  \* "a.b"
S_au == <<97, 46, 117>>                 \* "a.u"
S_bu == <<98, 46, 117>>                 \* "b.u"
S_z == <<122>>                          \* "z"   (names no table)
S_x == <<120>>                          \* "x"
S_id == <<105, 100>>                    \* "id"
S_uid == <<117, 105, 100>>              \* "uid"
S_nm == <<110, 109>>                    \* "nm"
S_SERIAL == <<83, 69, 82, 73, 65, 76>>  \* "SERIAL"
S_INT == <<73, 78, 84>>                 \* "INT"
S_VARCHAR == <<86, 65, 82, 67, 72, 65, 82, 40, 49, 48, 48, 41>> \* "VARCHAR(100)"
S_long == <<99, 117, 115, 116, 111, 109, 101, 114, 95, 97, 100, 100, 114, 101, 115, 115, 101, 115>> \* "customer_addresses"

\* a < b as Python compares str: by code point, a proper prefix first
StrLess(a, b) ==
    \E k \in 0..(IF Len(a) < Len(b) THEN Len(a) ELSE Len(b)) :
        /\ \A j \in 1..k : a[j] = b[j]
        /\ \/ k = Len(a) /\ k < Len(b)
           \/ k < Len(a) /\ k < Len(b) /\ a[k + 1] < b[k + 1]

\* c.startswith(p)
StartsWith(c, p) == Len(p) <= Len(c) /\ SubSeq(c, 1, Len(p)) = p

Max2(a, b) == IF a >= b THEN a ELSE b

RECURSIVE MaxOfSeq(_)
MaxOfSeq(s) == IF Len(s) = 1 THEN s[1] ELSE Max2(s[1], MaxOfSeq(Tail(s)))

RECURSIVE MaxOfSet(_)
MaxOfSet(S) ==
    LET x == CHOOSE v \in S : TRUE
    IN  IF S = {x} THEN x ELSE Max2(x, MaxOfSet(S \ {x}))

-----------------------------------------------------------------------------
(* models.py *)

\* the slip of keying a table by its simple name
get_qualified_table_name_SimpleName(table) == table.name

\* the slip "if table.schema is not None": an empty schema gives ".name"
get_qualified_table_name_IsNotNone(table) ==
    IF table.schema # None THEN table.schema \o <<46>> \o table.name ELSE table.name

\* f"{table.schema}.{table.name}" if table.schema else table.name
get_qualified_table_name(table) ==
    IF Truthy(table.schema) THEN table.schema \o S_dot \o table.name ELSE table.name

-----------------------------------------------------------------------------
(* The records of models.py, and the inputs the calls are drawn from *)

Column(name, type, nullable, primary_key, references) ==
    [name |-> name, type |-> type, nullable |-> nullable,
     primary_key |-> primary_key, unique |-> FALSE,
     default_value |-> None, references |-> references]

ForeignKey(columns, referenced_table) ==
    [columns |-> columns, referenced_table |-> referenced_table,
     referenced_columns |-> <<S_id>>, name |-> None]

Table(name, sch, columns, primary_key, foreign_keys, indexes) ==
    [name |-> name, columns |-> columns, primary_key |-> primary_key,
     foreign_keys |-> foreign_keys, indexes |-> indexes, schema |-> sch]

col_id == Column(S_id, S_SERIAL, FALSE, TRUE, None)        \* "id: SERIAL PK"
\* a ForeignKeyReference is the pair (table, column)
col_uid == Column(S_uid, S_INT, FALSE, FALSE, <<S_u, S_id>>)  \* "uid: INT FK NN"
col_nm == Column(S_nm, S_VARCHAR, TRUE, FALSE, None)       \* "nm: VARCHAR(100)"

ColumnSet == {col_id, col_uid, col_nm}

fk_u == ForeignKey(<<S_uid>>, S_u)       \* unqualified reference to "u"
fk_o == ForeignKey(<<S_uid>>, S_o)       \* unqualified reference to "o"
fk_au == ForeignKey(<<S_uid>>, S_au)     \* qualified reference to "a.u"
fk_long == ForeignKey(<<S_uid>>, S_long) \* reference to "customer_addresses"
fk_z == ForeignKey(<<S_uid>>, S_z)       \* reference to a table that does not exist

idx_nm == [name |-> S_nm, columns |-> <<S_nm>>, unique |-> TRUE]

\* The tables a schema is built from: the simple name "u" under the schemas
\* None, "", "a", "a.b" and "b"; qualified and unqualified, ambiguous, repeated,
\* self-referencing and unresolvable foreign keys; zero to two columns; a name
\* longer than every column line; the quoted name "b.u" in schema "a", which is
\* another table than "u" in schema "a.b"; a table with foreign keys to two tables.
TableShapes ==
    { Table(S_u, None, <<col_id>>, <<S_id>>, <<>>, <<>>),
      Table(S_u, <<>>, <<col_id, col_nm>>, <<S_id>>, <<>>, <<idx_nm>>),
      Table(S_u, S_a, <<col_id>>, <<S_id>>, <<fk_o>>, <<>>),
      Table(S_u, S_ab, <<col_id>>, <<S_id>>, <<fk_au>>, <<>>),
      Table(S_u, S_b, <<>>, None, <<fk_z>>, <<>>),
      Table(S_o, S_a, <<col_id, col_uid>>, <<S_id>>, <<fk_u, fk_z, fk_u>>, <<>>),
      Table(S_long, None, <<col_id, col_uid>>, <<S_id>>, <<fk_long>>, <<>>),
      Table(S_bu, S_a, <<col_nm>>, None, <<>>, <<idx_nm>>),
      Table(S_x, None, <<col_uid>>, None, <<fk_o, fk_u>>, <<>>) }

MaxTables == 3

Dialects == {"postgresql", "sqlite"}

\* the lists of at most max tables, a table occurring once
TableLists(max) ==
    UNION { { ts \in [1..n -> TableShapes] : \A i, j \in 1..n : i # j => ts[i] # ts[j] } :
              n \in 0..max }

\* the dialect is copied to the result and never read: it varies on the schemas of
\* at most one table
Schemas ==
    { [tables |-> ts, dialect |-> "postgresql"] : ts \in TableLists(MaxTables) }
        \cup { [tables |-> ts, dialect |-> d] : ts \in TableLists(1), d \in Dialects }

\* LayoutOptions(): the defaults of the dataclass
DefaultOptions(direction) ==
    [char_width |-> 8, row_height |-> 26, padding |-> 20, min_table_width |-> 150,
     node_gap |-> 80, rank_gap |-> 120, direction |-> direction]

\* a caller's options: small sizes, tables touching (both gaps 0)
CompactOptions(direction) ==
    [char_width |-> 6, row_height |-> 20, padding |-> 10, min_table_width |-> 100,
     node_gap |-> 0, rank_gap |-> 0, direction |-> direction]

Directions == {"TB", "LR"}

OptionsSet == { DefaultOptions(d) : d \in Directions } \cup { CompactOptions(d) : d \in Directions }

-----------------------------------------------------------------------------
(* networkx_layout.py: dimension estimation *)

S_colon == <<58, 32>>                   \* ": "
S_PK == <<32, 80, 75>>                  \* " PK"
S_FK == <<32, 70, 75>>                  \* " FK"
S_NN == <<32, 78, 78>>                  \* " NN"

\* the slip of if not col.nullable: a primary key is tagged NN as well
ColumnLine_NNAlways(col) ==
    (col.name \o S_colon \o col.type)
        \o (IF col.primary_key THEN S_PK ELSE <<>>)
        \o (IF col.references # None THEN S_FK ELSE <<>>)
        \o (IF ~col.nullable THEN S_NN ELSE <<>>)

\* the line built for one column, lines 111-117
ColumnLine(col) ==
    (col.name \o S_colon \o col.type)
        \o (IF col.primary_key THEN S_PK ELSE <<>>)
        \o (IF col.references # None THEN S_FK ELSE <<>>)
        \o (IF ~col.nullable /\ ~col.primary_key THEN S_NN ELSE <<>>)

HeaderExtra == 4

\* the slip of a sign: the rows are taken off the height
_calculate_table_dimensions_RowsSubtracted(table, o) ==
    LET column_lengths == [k \in 1..Len(table.columns) |-> Len(ColumnLine(table.columns[k]))]
        max_length == IF column_lengths # <<>>
                      THEN MaxOfSeq(<<Len(table.name)>> \o column_lengths)
                      ELSE Len(table.name)
    IN  <<Max2(o.min_table_width, max_length * o.char_width + o.padding * 2),
          (o.row_height + HeaderExtra) - Len(table.columns) * o.row_height + o.padding>>

\* the slip of leaving the bottom padding out of the height
_calculate_table_dimensions_NoPadding(table, o) ==
    LET column_lengths == [k \in 1..Len(table.columns) |-> Len(ColumnLine(table.columns[k]))]
        max_length == IF column_lengths # <<>>
                      THEN MaxOfSeq(<<Len(table.name)>> \o column_lengths)
                      ELSE Len(table.name)
    IN  <<Max2(o.min_table_width, max_length * o.char_width + o.padding * 2),
          (o.row_height + HeaderExtra) + Len(table.columns) * o.row_height>>

_calculate_table_dimensions(table, o) ==
    LET header_length == Len(table.name)
        column_lengths == [k \in 1..Len(table.columns) |-> Len(ColumnLine(table.columns[k]))]
        max_length == IF column_lengths # <<>>
                      THEN MaxOfSeq(<<header_length>> \o column_lengths)
                      ELSE header_length
        width == Max2(o.min_table_width, max_length * o.char_width + o.padding * 2)
        header_height == o.row_height + HeaderExtra
        columns_height == Len(table.columns) * o.row_height
        height == header_height + columns_height + o.padding
    IN  <<width, height>>

-----------------------------------------------------------------------------
(* networkx_layout.py: layout_schema, the first loop (lines 38-47) *)

EmptyDict == [k \in {} |-> <<>>]

\* d[key] = value
DictSet(d, key, value) ==
    (key :> value) @@ d

\* d.get(key, default)
DictGet(d, key, default) == IF key \in DOMAIN d THEN d[key] ELSE default

\* table_dims after the first k tables
RECURSIVE TableDimsAfter(_, _, _)
TableDimsAfter(tables, o, k) ==
    IF k = 0 THEN EmptyDict
    ELSE DictSet(TableDimsAfter(tables, o, k - 1),
                 get_qualified_table_name(tables[k]),
                 _calculate_table_dimensions(tables[k], o))

\* table_name_to_qualified after the first k tables
RECURSIVE NameToQualifiedAfter(_, _)
NameToQualifiedAfter(tables, k) ==
    IF k = 0 THEN EmptyDict
    ELSE LET before == NameToQualifiedAfter(tables, k - 1)
             name == tables[k].name
         IN  DictSet(before, name,
                     Append(DictGet(before, name, <<>>),
                            get_qualified_table_name(tables[k])))

-----------------------------------------------------------------------------
(* networkx_layout.py: layout_schema, foreign-key resolution (lines 50-68) *)

\* next((c for c in candidates if c.startswith(f"{table.schema}.")), None)
SameSchema(candidates, table) ==
    LET hits == { k \in 1..Len(candidates) :
                    StartsWith(candidates[k], table.schema \o S_dot) }
    IN  IF hits = {} THEN None
        ELSE candidates[CHOOSE k \in hits : \A j \in hits : k <= j]

\* the slip of looking the simple name up before the test of line 55
ResolveTarget_SimpleNameFirst(table, fk, dims, name_to_qualified) ==
    LET referenced == fk.referenced_table
        candidates == DictGet(name_to_qualified, referenced, <<>>)
    IN  IF Len(candidates) = 1 THEN candidates[1]
        ELSE IF Len(candidates) > 1 /\ Truthy(table.schema)
             THEN LET same_schema == SameSchema(candidates, table)
                  IN  IF Truthy(same_schema) THEN same_schema ELSE candidates[1]
        ELSE IF candidates # <<>> THEN candidates[1]
        ELSE referenced

\* target_qualified as line 67 reads it
ResolveTarget(table, fk, dims, name_to_qualified) ==
    LET referenced == fk.referenced_table
        candidates == DictGet(name_to_qualified, referenced, <<>>)
    IN  IF referenced \in DOMAIN dims THEN referenced
        ELSE IF Len(candidates) = 1 THEN candidates[1]
        ELSE IF Len(candidates) > 1 /\ Truthy(table.schema)
             THEN LET same_schema == SameSchema(candidates, table)
                  IN  IF Truthy(same_schema) THEN same_schema ELSE candidates[1]
        ELSE IF candidates # <<>> THEN candidates[1]
        ELSE referenced

\* the slip of adding the edge whether or not the target was resolved
EdgeAdmitted_Always(target, dims) == TRUE

\* if target_qualified in table_dims
EdgeAdmitted(target, dims) == target \in DOMAIN dims

\* the slip of g.add_edge(target_qualified, source_qualified): referenced -> referencing
ResolvedEdges_Reversed(tables, dims, name_to_qualified) ==
    LET all == UNION { { <<ResolveTarget(tables[i], tables[i].foreign_keys[k],
                                         dims, name_to_qualified),
                           get_qualified_table_name(tables[i])>> :
                             k \in DOMAIN tables[i].foreign_keys } :
                       i \in DOMAIN tables }
    IN  { e \in all : EdgeAdmitted(e[1], dims) }

\* the edges the second loop adds
ResolvedEdges(tables, dims, name_to_qualified) ==
    LET all == UNION { { <<get_qualified_table_name(tables[i]),
                           ResolveTarget(tables[i], tables[i].foreign_keys[k],
                                         dims, name_to_qualified)>> :
                             k \in DOMAIN tables[i].foreign_keys } :
                       i \in DOMAIN tables }
    IN  { e \in all : EdgeAdmitted(e[2], dims) }

\* g.add_edge(u, v) also adds the nodes u and v when g does not hold them
NodesAfterEdges(nodes, edges) == nodes \cup { e[1] : e \in edges } \cup { e[2] : e \in edges }

-----------------------------------------------------------------------------
(* networkx: the DiGraph operations the layout uses *)

\* the slip of leaving self-loops out of the graph's degrees and orderings
Predecessors_NoSelfLoop(n, edges) == { e[1] : e \in { d \in edges : d[2] = n /\ d[1] # n } }

Predecessors(n, edges) == { e[1] : e \in { d \in edges : d[2] = n } }

\* g.in_degree(): a DiGraph holds one edge per (source, target); a self-loop counts
InDegree(n, edges) == Cardinality(Predecessors(n, edges))

\* the slip of layering by the nearest predecessor: a node is taken as soon as one of
\* its predecessors lies in an earlier generation
RECURSIVE TopologicalGenerations_AnyPredecessor(_, _, _)
TopologicalGenerations_AnyPredecessor(remaining, edges, acc) ==
    LET free == { n \in remaining :
                    \/ { p \in edges : p[2] = n } = {}
                    \/ \E p \in edges : p[2] = n /\ p[1] \notin remaining }
    IN  IF remaining = {} THEN [ok |-> TRUE, generations |-> acc]
        ELSE IF free = {} THEN [ok |-> FALSE, generations |-> <<>>]
        ELSE TopologicalGenerations_AnyPredecessor(remaining \ free, edges,
                                                   Append(acc, free))

\* nx.topological_generations(g): a generation is the set of nodes all of whose
\* predecessors lie in earlier generations; NetworkXUnfeasible (ok = FALSE)
\* when nodes remain and none is free, which is when g has a cycle.
RECURSIVE TopologicalGenerations(_, _, _)
TopologicalGenerations(remaining, edges, acc) ==
    LET zero_indegree == { n \in remaining : Predecessors(n, edges) \cap remaining = {} }
    IN  IF remaining = {} THEN [ok |-> TRUE, generations |-> acc]
        ELSE IF zero_indegree = {} THEN [ok |-> FALSE, generations |-> <<>>]
        ELSE TopologicalGenerations(remaining \ zero_indegree, edges,
                                    Append(acc, zero_indegree))

\* the slip of sorted(keys, reverse=True)
RECURSIVE SortedInts_Descending(_)
SortedInts_Descending(S) ==
    IF S = {} THEN <<>>
    ELSE LET m == CHOOSE x \in S : \A y \in S : x >= y
         IN  <<m>> \o SortedInts_Descending(S \ {m})

\* sorted(keys) of a set of integers
RECURSIVE SortedInts(_)
SortedInts(S) ==
    IF S = {} THEN <<>>
    ELSE LET m == CHOOSE x \in S : \A y \in S : x <= y
         IN  <<m>> \o SortedInts(S \ {m})

\* the slip of grouping by g.out_degree()
_get_generations_with_cycles_OutDegree(nodes, edges) ==
    LET out_degree(n) == Cardinality({ e \in edges : e[1] = n })
        degrees == { out_degree(n) : n \in nodes }
        keys == SortedInts(degrees)
    IN  [k \in 1..Len(keys) |-> { n \in nodes : out_degree(n) = keys[k] }]

_get_generations_with_cycles(nodes, edges) ==
    LET degrees == { InDegree(n, edges) : n \in nodes }
        levels == [d \in degrees |-> { n \in nodes : InDegree(n, edges) = d }]
        keys == SortedInts(degrees)
    IN  [k \in 1..Len(keys) |-> levels[keys[k]]]

\* lines 141-146: the generations, as sets
Generations(nodes, edges) ==
    LET topo == TopologicalGenerations(nodes, edges, <<>>)
    IN  IF topo.ok THEN topo.generations ELSE _get_generations_with_cycles(nodes, edges)

UsesFallback(nodes, edges) == ~TopologicalGenerations(nodes, edges, <<>>).ok

\* the orders in which Python may iterate over a set
RECURSIVE IterationOrders(_)
IterationOrders(S) ==
    IF S = {} THEN { <<>> }
    ELSE UNION { { <<x>> \o rest : rest \in IterationOrders(S \ {x}) } : x \in S }

\* one iteration order for every generation
RECURSIVE GenerationOrders(_)
GenerationOrders(gens) ==
    IF gens = <<>> THEN { <<>> }
    ELSE { <<first>> \o rest : first \in IterationOrders(Head(gens)),
                               rest \in GenerationOrders(Tail(gens)) }

-----------------------------------------------------------------------------
(* networkx_layout.py: _hierarchical_layout, placement (lines 148-191) *)

Origin == 20

Elements(seq) == { seq[k] : k \in DOMAIN seq }

\* the slip of placing a generation in its iteration order
sorted_Unsorted(seq) == seq

\* sorted(generation): ascending in Python's order of str
RECURSIVE sorted(_)
sorted(seq) ==
    IF seq = <<>> THEN <<>>
    ELSE LET m == CHOOSE x \in Elements(seq) :
                    \A y \in Elements(seq) : x = y \/ StrLess(x, y)
         IN  <<m>> \o sorted(SelectSeq(seq, LAMBDA x : x # m))

\* the slip of x_offset += width: the gap between the nodes of a row is left out
RECURSIVE PlaceNodesTB_NoGap(_, _, _, _, _, _)
PlaceNodesTB_NoGap(sorted_nodes, dims, o, x_offset, y_offset, pos) ==
    IF sorted_nodes = <<>> THEN pos
    ELSE LET node == Head(sorted_nodes)
             width == dims[node][1]
         IN  PlaceNodesTB_NoGap(Tail(sorted_nodes), dims, o, x_offset + width,
                                y_offset, DictSet(pos, node, <<x_offset, y_offset>>))

\* the loop over sorted_nodes, lines 162-165
RECURSIVE PlaceNodesTB(_, _, _, _, _, _)
PlaceNodesTB(sorted_nodes, dims, o, x_offset, y_offset, pos) ==
    IF sorted_nodes = <<>> THEN pos
    ELSE LET node == Head(sorted_nodes)
             width == dims[node][1]
         IN  PlaceNodesTB(Tail(sorted_nodes), dims, o, x_offset + width + o.node_gap,
                          y_offset, DictSet(pos, node, <<x_offset, y_offset>>))

\* the loop over generations, lines 151-169
RECURSIVE PlaceGenerationsTB(_, _, _, _, _)
PlaceGenerationsTB(generations, dims, o, y_offset, pos) ==
    IF generations = <<>> THEN pos
    ELSE LET generation == Head(generations)
             sorted_nodes == sorted(generation)
             max_height == IF generation # <<>>
                           THEN MaxOfSet({ dims[node][2] : node \in Elements(generation) })
                           ELSE 0
         IN  PlaceGenerationsTB(Tail(generations), dims, o,
                                y_offset + max_height + o.rank_gap,
                                PlaceNodesTB(sorted_nodes, dims, o, Origin, y_offset, pos))

\* the loop over sorted_nodes, lines 182-185
RECURSIVE PlaceNodesLR(_, _, _, _, _, _)
PlaceNodesLR(sorted_nodes, dims, o, x_offset, y_offset, pos) ==
    IF sorted_nodes = <<>> THEN pos
    ELSE LET node == Head(sorted_nodes)
             height == dims[node][2]
         IN  PlaceNodesLR(Tail(sorted_nodes), dims, o, x_offset,
                          y_offset + height + o.node_gap,
                          DictSet(pos, node, <<x_offset, y_offset>>))

\* the slip of copying the TB branch: the next column starts after the maximum height
RECURSIVE PlaceGenerationsLR_MaxHeight(_, _, _, _, _)
PlaceGenerationsLR_MaxHeight(generations, dims, o, x_offset, pos) ==
    IF generations = <<>> THEN pos
    ELSE LET generation == Head(generations)
             sorted_nodes == sorted(generation)
             max_height == IF generation # <<>>
                           THEN MaxOfSet({ dims[node][2] : node \in Elements(generation) })
                           ELSE 0
         IN  PlaceGenerationsLR_MaxHeight(Tail(generations), dims, o,
                                          x_offset + max_height + o.rank_gap,
                                          PlaceNodesLR(sorted_nodes, dims, o, x_offset, Origin, pos))

\* the loop over generations, lines 173-189
RECURSIVE PlaceGenerationsLR(_, _, _, _, _)
PlaceGenerationsLR(generations, dims, o, x_offset, pos) ==
    IF generations = <<>> THEN pos
    ELSE LET generation == Head(generations)
             sorted_nodes == sorted(generation)
             max_width == IF generation # <<>>
                          THEN MaxOfSet({ dims[node][1] : node \in Elements(generation) })
                          ELSE 0
         IN  PlaceGenerationsLR(Tail(generations), dims, o,
                                x_offset + max_width + o.rank_gap,
                                PlaceNodesLR(sorted_nodes, dims, o, x_offset, Origin, pos))

\* _hierarchical_layout on generations given in their iteration order; total_width
\* and total_height (lines 153-154, 175-176) are computed and never read
_hierarchical_layout(generations, dims, o) ==
    IF o.direction = "TB"
    THEN PlaceGenerationsTB(generations, dims, o, Origin, EmptyDict)
    ELSE PlaceGenerationsLR(generations, dims, o, Origin, EmptyDict)

\* the slip of placing unconditionally
NeedsPlacement_Always(nodes) == TRUE

\* if len(g.nodes) > 0
NeedsPlacement(nodes) == Cardinality(nodes) > 0

-----------------------------------------------------------------------------
(* networkx_layout.py: layout_schema, the result (lines 76-98) *)

PositionedTable(table, pos, dims) ==
    [name |-> table.name, schema |-> table.schema, columns |-> table.columns,
     primary_key |-> table.primary_key, foreign_keys |-> table.foreign_keys,
     indexes |-> table.indexes,
     x |-> pos[1], y |-> pos[2], width |-> dims[1], height |-> dims[2]]

\* the slip of building the result from one table per key of table_dims
EmittedTables_PerKey(sch) ==
    LET first == { i \in DOMAIN sch.tables :
                     \A j \in 1..(i - 1) : get_qualified_table_name(sch.tables[j])
                                             # get_qualified_table_name(sch.tables[i]) }
        RECURSIVE Pick(_)
        Pick(i) == IF i > Len(sch.tables) THEN <<>>
                   ELSE (IF i \in first THEN <<sch.tables[i]>> ELSE <<>>) \o Pick(i + 1)
    IN  Pick(1)

\* the tables the last loop iterates over
EmittedTables(sch) == sch.tables

PositionedSchema(sch, dims, pos) ==
    LET tables == EmittedTables(sch)
    IN  [tables |-> [k \in DOMAIN tables |->
                       LET qualified_name == get_qualified_table_name(tables[k])
                       IN  PositionedTable(tables[k],
                                           DictGet(pos, qualified_name, <<0, 0>>),
                                           dims[qualified_name])],
         dialect |-> sch.dialect]

-----------------------------------------------------------------------------
(* The calls *)

NoSchema == [tables |-> <<>>, dialect |-> "postgresql"]

\* generate_drawio before its first loop: lines 44-47
NoDrawio ==
    [cells |-> <<>>, edges |-> <<>>, table_id_map |-> EmptyDict, column_id_map |-> EmptyDict]

\* MiroGenerator.generate before its first loop: lines 73-76 and 91
NoMiro ==
    [table_shape_ids |-> EmptyDict, column_shape_ids |-> EmptyDict,
     table_name_to_qualified |-> EmptyDict, connectors_created |-> 0]

\* a board on which nothing was created
NoBoard == [shapes |-> <<>>, connectors |-> <<>>]

\* the two concurrent calls of layout_schema
Calls == {1, 2}

\* overlaps records that the call was entered while another call was in progress
NoCall ==
    [pc |-> "idle", schema |-> NoSchema, opts |-> DefaultOptions("TB"), result |-> <<>>,
     overlaps |-> FALSE]

\* the objects of lines 31-36 (g, table_dims, table_name_to_qualified) and positions
NoLocals ==
    [table_dims |-> EmptyDict, table_name_to_qualified |-> EmptyDict,
     g_nodes |-> {}, g_edges |-> {}, positions |-> EmptyDict]

\* _parse_create_table before it is called
NoParse ==
    [pc |-> "idle", table_name |-> <<>>, expressions |-> <<>>, position |-> 0,
     indexes |-> <<>>]

Init ==
    /\ pc = "idle"
    /\ schema = NoSchema
    /\ opts = DefaultOptions("TB")
    /\ table_dims = EmptyDict
    /\ table_name_to_qualified = EmptyDict
    /\ g_nodes = {}
    /\ g_edges = {}
    /\ positions = EmptyDict
    /\ result = <<>>
    /\ hl_called = 0
    /\ used_fallback = FALSE
    /\ prev = <<>>
    /\ gen_pc = "idle"
    /\ _cell_id_counter = 0
    /\ drawio = NoDrawio
    /\ miro = NoMiro
    /\ board = NoBoard
    /\ calls = [c \in Calls |-> NoCall]
    /\ locals = [c \in Calls |-> NoLocals]
    /\ parser = NoParse

\* layout_schema(s, o) is entered: lines 28-36
Enter(s, o) ==
    /\ pc = "idle"
    /\ pc' = "nodes"
    /\ schema' = s
    /\ opts' = o
    /\ table_dims' = EmptyDict
    /\ table_name_to_qualified' = EmptyDict
    /\ g_nodes' = {}
    /\ g_edges' = {}
    /\ positions' = EmptyDict
    /\ result' = <<>>
    /\ hl_called' = 0
    /\ used_fallback' = FALSE
    /\ prev' = <<>>
    /\ UNCHANGED <<generator_vars, parallel_vars, parser>>

\* lines 38-47: dimensions, nodes and the simple-name lookup
AddNodes ==
    /\ pc = "nodes"
    /\ pc' = "edges"
    /\ table_dims' = TableDimsAfter(schema.tables, opts, Len(schema.tables))
    /\ table_name_to_qualified' = NameToQualifiedAfter(schema.tables, Len(schema.tables))
    /\ g_nodes' = { get_qualified_table_name(schema.tables[k]) : k \in DOMAIN schema.tables }
    /\ UNCHANGED <<schema, opts, g_edges, positions, result, hl_called, used_fallback, prev>>
    /\ UNCHANGED <<generator_vars, parallel_vars, parser>>

\* the slip of fk.referenced_table = target_qualified: the resolved name is written
\* back into the foreign key
TablesAfterEdges_WrittenBack(tables, dims, name_to_qualified) ==
    [i \in DOMAIN tables |->
        [tables[i] EXCEPT !.foreign_keys =
            [k \in DOMAIN @ |->
                [@[k] EXCEPT !.referenced_table =
                    ResolveTarget(tables[i], tables[i].foreign_keys[k], dims,
                                  name_to_qualified)]]]]

\* schema.tables after the second loop: target_qualified is a local name, nothing
\* is assigned to a table or to a foreign key
TablesAfterEdges(tables, dims, name_to_qualified) == tables

\* lines 50-68: one edge per resolved foreign key
AddEdges ==
    /\ pc = "edges"
    /\ pc' = "layout"
    /\ g_edges' = ResolvedEdges(schema.tables, table_dims, table_name_to_qualified)
    /\ g_nodes' = NodesAfterEdges(g_nodes, g_edges')
    /\ schema' = [schema EXCEPT !.tables = TablesAfterEdges(@, table_dims,
                                                            table_name_to_qualified)]
    /\ UNCHANGED <<opts, table_dims, table_name_to_qualified, positions,
                   result, hl_called, used_fallback, prev>>
    /\ UNCHANGED <<generator_vars, parallel_vars, parser>>

\* lines 71-72: _hierarchical_layout(g, table_dims, opts); table_dims[node] of a
\* node that has no dimensions is a KeyError
Place ==
    /\ pc = "layout"
    /\ NeedsPlacement(g_nodes)
    /\ hl_called' = hl_called + 1
    /\ used_fallback' = UsesFallback(g_nodes, g_edges)
    /\ IF g_nodes \subseteq DOMAIN table_dims
       THEN /\ \E generations \in GenerationOrders(Generations(g_nodes, g_edges)) :
                 positions' = _hierarchical_layout(generations, table_dims, opts)
            /\ pc' = "emit"
       ELSE /\ positions' = positions
            /\ pc' = "KeyError"
    /\ UNCHANGED <<schema, opts, table_dims, table_name_to_qualified, g_nodes, g_edges,
                   result, prev>>
    /\ UNCHANGED <<generator_vars, parallel_vars, parser>>

\* lines 73-74: positions = {}
SkipPlace ==
    /\ pc = "layout"
    /\ ~NeedsPlacement(g_nodes)
    /\ pc' = "emit"
    /\ positions' = EmptyDict
    /\ UNCHANGED <<schema, opts, table_dims, table_name_to_qualified, g_nodes, g_edges,
                   result, hl_called, used_fallback, prev>>
    /\ UNCHANGED <<generator_vars, parallel_vars, parser>>

\* lines 76-98: the PositionedSchema is built and returned
Emit ==
    /\ pc = "emit"
    /\ pc' = "done"
    /\ result' = <<PositionedSchema(schema, table_dims, positions)>>
    /\ UNCHANGED <<schema, opts, table_dims, table_name_to_qualified, g_nodes, g_edges,
                   positions, hl_called, used_fallback, prev>>
    /\ UNCHANGED <<generator_vars, parallel_vars, parser>>

\* the caller lays out the same Schema with the same options once more: the whole
\* of layout_schema, its sets iterating in an order of their own
Again ==
    /\ pc = "done"
    /\ prev' = result
    /\ table_dims' = TableDimsAfter(schema.tables, opts, Len(schema.tables))
    /\ table_name_to_qualified' = NameToQualifiedAfter(schema.tables, Len(schema.tables))
    /\ g_edges' = ResolvedEdges(schema.tables, table_dims', table_name_to_qualified')
    /\ g_nodes' = NodesAfterEdges(
                      { get_qualified_table_name(schema.tables[k]) : k \in DOMAIN schema.tables },
                      g_edges')
    /\ hl_called' = IF NeedsPlacement(g_nodes') THEN 1 ELSE 0
    /\ used_fallback' = (NeedsPlacement(g_nodes') /\ UsesFallback(g_nodes', g_edges'))
    /\ IF ~NeedsPlacement(g_nodes')
       THEN /\ positions' = EmptyDict
            /\ result' = <<PositionedSchema(schema, table_dims', positions')>>
            /\ pc' = "done"
       ELSE IF g_nodes' \subseteq DOMAIN table_dims'
       THEN /\ \E generations \in GenerationOrders(Generations(g_nodes', g_edges')) :
                 positions' = _hierarchical_layout(generations, table_dims', opts)
            /\ result' = <<PositionedSchema(schema, table_dims', positions')>>
            /\ pc' = "done"
       ELSE /\ positions' = EmptyDict
            /\ result' = <<>>
            /\ pc' = "KeyError"
    /\ UNCHANGED <<schema, opts>>
    /\ UNCHANGED <<generator_vars, parallel_vars, parser>>

Next ==
    \/ pc = "idle" /\ \E s \in Schemas, o \in OptionsSet : Enter(s, o)
    \/ AddNodes
    \/ AddEdges
    \/ Place
    \/ SkipPlace
    \/ Emit
    \/ Again

Spec == Init /\ [][Next]_vars

-----------------------------------------------------------------------------
(* Properties *)

Tables == schema.tables

QN(i) == get_qualified_table_name(Tables[i])

Out == result[1].tables

Returned == pc = "done"

AfterNodes == pc \in {"edges", "layout", "emit", "done"}

AfterEdges == pc \in {"layout", "emit", "done"}

NoException == pc # "KeyError"

\* the coordinate along which generations advance, and the one along which they pack
RankCoord(t) == IF opts.direction = "TB" THEN t.y ELSE t.x

PackCoord(t) == IF opts.direction = "TB" THEN t.x ELSE t.y

RECURSIVE TransitiveClosure(_)
TransitiveClosure(R) ==
    LET R2 == R \cup { <<p[1][1], p[2][2]>> : p \in { q \in R \X R : q[1][2] = q[2][1] } }
    IN  IF R2 = R THEN R ELSE TransitiveClosure(R2)

HasCycle(edges) == \E e \in TransitiveClosure(edges) : e[1] = e[2]

\* C1: layout_schema returns one positioned table per input table, in the input's
\* order, with name, schema, columns, primary_key, foreign_keys and indexes
\* unchanged, under the input's dialect; it never raises.
C1_Coverage ==
    /\ NoException
    /\ Returned =>
         /\ Len(Out) = Len(Tables)
         /\ \A i \in DOMAIN Tables :
              /\ i \in DOMAIN Out
              /\ Out[i].name = Tables[i].name
              /\ Out[i].schema = Tables[i].schema
              /\ Out[i].columns = Tables[i].columns
              /\ Out[i].primary_key = Tables[i].primary_key
              /\ Out[i].foreign_keys = Tables[i].foreign_keys
              /\ Out[i].indexes = Tables[i].indexes
              /\ DOMAIN Out[i] = DOMAIN Tables[i] \cup {"x", "y", "width", "height"}
         /\ result[1].dialect = schema.dialect

\* a three-table schema, two of its tables under one qualified name, was laid out
C1_Witness ==
    /\ Returned
    /\ Len(Tables) = 3
    /\ QN(1) = QN(3)
    /\ Tables[1] # Tables[3]

\* the schema of a table, None standing for an absent and for an empty schema
EffectiveSchema(t) == IF Truthy(t.schema) THEN t.schema ELSE None

DistinctKeys == \A i, j \in DOMAIN Tables : i # j => QN(i) # QN(j)

\* C3: a foreign key whose unqualified referenced_table (not itself the key of a
\* table) is the simple name of two or more tables, one of them in the
\* referencing table's schema, gives the edge from the referencing table to that
\* table and to no other candidate; there is one node per table; no exception.
C3_SameSchemaEdge ==
    /\ NoException
    /\ (AfterEdges /\ DistinctKeys) =>
         \A i \in DOMAIN Tables : \A k \in DOMAIN Tables[i].foreign_keys :
            LET referenced == Tables[i].foreign_keys[k].referenced_table
                matches == { j \in DOMAIN Tables : Tables[j].name = referenced }
                same == { j \in matches : Tables[j].schema = Tables[i].schema }
            IN  (Cardinality(matches) >= 2 /\ same # {} /\ referenced \notin DOMAIN table_dims) =>
                    /\ Cardinality(g_nodes) = Len(Tables)
                    /\ \A j \in same : <<QN(i), QN(j)>> \in g_edges
                    /\ Len(Tables[i].foreign_keys) = 1 =>
                         \A j \in matches \ same : <<QN(i), QN(j)>> \notin g_edges

\* C4: when the resolved foreign-key graph has a directed cycle, layout_schema
\* returns, through the in-degree fallback: every table has the position of its
\* node, tables of equal in-degree share the rank coordinate and a table of
\* smaller in-degree lies before one of larger in-degree.
C4_CycleTolerance ==
    /\ NoException
    /\ (AfterEdges /\ HasCycle(g_edges) /\ pc # "layout") =>
         /\ used_fallback
         /\ hl_called = 1
         /\ \A i \in DOMAIN Tables : QN(i) \in DOMAIN positions
    /\ (Returned /\ HasCycle(g_edges)) =>
         \A i, j \in DOMAIN Tables :
            /\ <<Out[i].x, Out[i].y>> = positions[QN(i)]
            /\ InDegree(QN(i), g_edges) = InDegree(QN(j), g_edges)
                  => RankCoord(Out[i]) = RankCoord(Out[j])
            /\ InDegree(QN(i), g_edges) < InDegree(QN(j), g_edges)
                  => RankCoord(Out[i]) < RankCoord(Out[j])

\* a cycle through three tables was laid out
C4_Witness ==
    /\ Returned
    /\ \E a, b, c \in g_nodes :
         /\ a # b /\ b # c /\ a # c
         /\ {<<a, b>>, <<b, c>>, <<c, a>>} \subseteq g_edges

\* the foreign keys of table i that name no table, by qualified or simple name
Unresolvable(i) ==
    { k \in DOMAIN Tables[i].foreign_keys :
        \A j \in DOMAIN Tables :
            /\ Tables[i].foreign_keys[k].referenced_table # QN(j)
            /\ Tables[i].foreign_keys[k].referenced_table # Tables[j].name }

\* C5: a foreign key that names no table raises nothing and adds no edge and no
\* node; its table is a node and gets that node's position.
C5_UnresolvedDropped ==
    /\ NoException
    /\ AfterEdges =>
         \A i \in DOMAIN Tables : \A k \in Unresolvable(i) :
            LET referenced == Tables[i].foreign_keys[k].referenced_table
            IN  /\ referenced \notin g_nodes
                /\ \A e \in g_edges : e[2] # referenced
                /\ QN(i) \in g_nodes
                /\ (\A j \in DOMAIN Tables :
                       QN(j) = QN(i) => Unresolvable(j) = DOMAIN Tables[j].foreign_keys)
                     => \A e \in g_edges : e[1] # QN(i)
                /\ Returned => /\ QN(i) \in DOMAIN positions
                               /\ <<Out[i].x, Out[i].y>> = positions[QN(i)]

\* a table whose only foreign key names no table was laid out beside another table
C5_Witness ==
    /\ Returned
    /\ Len(Tables) >= 2
    /\ \E i \in DOMAIN Tables :
         /\ Unresolvable(i) # {}
         /\ Unresolvable(i) = DOMAIN Tables[i].foreign_keys

\* C6: a second call on the same Schema and options returns the same x, y, width
\* and height for every table, whatever order the sets of a generation iterate in.
C6_Determinism ==
    (Returned /\ prev # <<>>) =>
        /\ Len(Out) = Len(prev[1].tables)
        /\ \A i \in DOMAIN Out :
             /\ Out[i].x = prev[1].tables[i].x
             /\ Out[i].y = prev[1].tables[i].y
             /\ Out[i].width = prev[1].tables[i].width
             /\ Out[i].height = prev[1].tables[i].height

\* two calls returned, and two nodes share a generation of the fallback
C6_Witness ==
    /\ Returned
    /\ prev # <<>>
    /\ used_fallback
    /\ \E a, b \in g_nodes : a # b /\ InDegree(a, g_edges) = InDegree(b, g_edges)

\* two calls returned, and two nodes share a topological generation
C6_WitnessTopological ==
    /\ Returned
    /\ prev # <<>>
    /\ ~used_fallback
    /\ \E a, b \in g_nodes : a # b /\ positions[a][2] = positions[b][2] /\ opts.direction = "TB"

Intersect(s, t) ==
    /\ s.x < t.x + t.width /\ t.x < s.x + s.width
    /\ s.y < t.y + t.height /\ t.y < s.y + s.height

\* C7: no two distinct returned tables (tables that differ in name or in schema)
\* have intersecting rectangles [x, x+width) x [y, y+height), in both
\* directions, the gaps being non-negative.
C7_NonOverlap ==
    (Returned /\ opts.node_gap >= 0 /\ opts.rank_gap >= 0) =>
        \A i, j \in DOMAIN Out :
            (i # j /\ <<EffectiveSchema(Out[i]), Out[i].name>>
                        # <<EffectiveSchema(Out[j]), Out[j].name>>) =>
                ~Intersect(Out[i], Out[j])

\* C8: get_qualified_table_name is schema, ".", name when schema is a non-empty
\* string and is name when schema is None or "".
C8_QualifiedName ==
    AfterNodes =>
        \A i \in DOMAIN Tables :
            LET t == Tables[i]
                q == get_qualified_table_name(t)
            IN  /\ q \in g_nodes
                /\ q \in DOMAIN table_dims
                /\ (t.schema # None /\ Len(t.schema) > 0) =>
                      /\ Len(q) = Len(t.schema) + 1 + Len(t.name)
                      /\ SubSeq(q, 1, Len(t.schema)) = t.schema
                      /\ q[Len(t.schema) + 1] = 46
                      /\ SubSeq(q, Len(t.schema) + 2, Len(q)) = t.name
                /\ (t.schema = None \/ t.schema = <<>>) => q = t.name

\* the nodes of a schema holding a table without schema, one with schema "" and
\* one with a schema were added
C8_Witness ==
    /\ pc = "edges"
    /\ \E i, j, k \in DOMAIN Tables :
         /\ Tables[i].schema = None
         /\ Tables[j].schema = <<>>
         /\ Truthy(Tables[k].schema)

\* the column lists that are added to a table
ExtraColumns == { <<c>> : c \in ColumnSet } \cup { <<col_nm, col_id>>, <<col_uid, col_uid>> }

\* C9: a table with additional columns, all else equal and under the same
\* options, is never less high than the table without them.
C9_HeightMonotone ==
    pc = "edges" =>
        \A i \in DOMAIN Tables :
            LET t == Tables[i]
                height == _calculate_table_dimensions(t, opts)[2]
            IN  /\ table_dims[QN(i)][2] >= opts.row_height + HeaderExtra + opts.padding
                /\ \A extra \in ExtraColumns :
                     /\ _calculate_table_dimensions([t EXCEPT !.columns = extra \o @], opts)[2]
                           >= height
                     /\ _calculate_table_dimensions([t EXCEPT !.columns = @ \o extra], opts)[2]
                           >= height

\* the dimensions of a table without columns and of one with two were computed
C9_Witness ==
    /\ pc = "edges"
    /\ \E i, j \in DOMAIN Tables :
         /\ Len(Tables[i].columns) = 0
         /\ Len(Tables[j].columns) = 2
         /\ table_dims[QN(i)][2] < table_dims[QN(j)][2]

\* C10: a Schema without tables gives a PositionedSchema without tables, raises
\* nothing and never calls _hierarchical_layout.
C10_EmptySchema ==
    /\ NoException
    /\ Len(Tables) = 0 =>
         /\ hl_called = 0
         /\ g_nodes = {}
         /\ pc \in {"emit", "done"} => positions = EmptyDict
         /\ Returned => Out = <<>>

\* the call on a Schema without tables returned
C10_Witness == Returned /\ Len(Tables) = 0 /\ schema.dialect = "sqlite" /\ opts.direction = "LR"

-----------------------------------------------------------------------------
(* drawio.py: generate_drawio *)

S_cell == <<99, 101, 108, 108, 45>>                      \* "cell-"
S_table_key == <<95, 95, 116, 97, 98, 108, 101, 95, 95>> \* "__table__"
S_root == <<49>>                                         \* "1", the parent of tables and edges

\* str(n) of a natural number, as an f-string formats it
RECURSIVE str(_)
str(n) == IF n < 10 THEN <<48 + n>> ELSE str(n \div 10) \o <<48 + (n % 10)>>

\* _next_id() when the counter is `counter`: the id returned; the counter becomes counter + 1
_next_id(counter) == S_cell \o str(counter + 1)

\* the slip of a call that does not reset the counter
_reset_id_counter_Kept(counter) == counter

\* _reset_id_counter(): the value the counter is set to
_reset_id_counter(counter) == 0

\* column_ids after the first k columns, lines 97-99
RECURSIVE ColumnIdsAfter(_, _, _)
ColumnIdsAfter(table, counter, k) ==
    IF k = 0 THEN DictSet(EmptyDict, S_table_key, _next_id(counter))
    ELSE DictSet(ColumnIdsAfter(table, counter, k - 1),
                 table.columns[k].name, _next_id(counter + k))

\* _generate_table_cells(table, opts) when the counter is `counter`: the cells (their
\* id and parent), the ids by column name, and the counter afterwards
_generate_table_cells(table, counter) ==
    LET table_id == _next_id(counter)
        n == Len(table.columns)
    IN  [cells |-> <<[id |-> table_id, parent |-> S_root]>>
                      \o [i \in 1..n |-> [id |-> _next_id(counter + i), parent |-> table_id]],
         column_ids |-> ColumnIdsAfter(table, counter, n),
         counter |-> counter + 1 + n]

\* the first loop of generate_drawio (lines 50-54) after the first k tables
RECURSIVE DrawioTablesAfter(_, _, _)
DrawioTablesAfter(tables, counter, k) ==
    IF k = 0 THEN [d |-> NoDrawio, counter |-> counter]
    ELSE LET before == DrawioTablesAfter(tables, counter, k - 1)
             table == tables[k]
             made == _generate_table_cells(table, before.counter)
         IN  [d |-> [cells |-> before.d.cells \o made.cells,
                     edges |-> <<>>,
                     table_id_map |-> DictSet(before.d.table_id_map, table.name,
                                              made.column_ids[S_table_key]),
                     column_id_map |-> DictSet(before.d.column_id_map, table.name,
                                               made.column_ids)],
              counter |-> made.counter]

\* the pairs (table, foreign key) in the order the nested loops visit them
RECURSIVE FkPairs(_, _)
FkPairs(tables, i) ==
    IF i > Len(tables) THEN <<>>
    ELSE [k \in 1..Len(tables[i].foreign_keys) |-> <<i, k>>] \o FkPairs(tables, i + 1)

\* `a or b` of two optional strings
Or(a, b) == IF Truthy(a) THEN a ELSE b

\* lines 59-67: the pair (source_col_id, target_col_id) of one foreign key, None for
\* an id that was not found; a missing (None) and an empty dict are both false
DrawioEndpoints(table, fk, column_id_map) ==
    LET source_table_cols == DictGet(column_id_map, table.name, EmptyDict)
        target_table_cols == DictGet(column_id_map, fk.referenced_table, EmptyDict)
    IN  IF DOMAIN source_table_cols # {} /\ DOMAIN target_table_cols # {}
        THEN <<DictGet(source_table_cols, fk.columns[1], None),
               Or(DictGet(target_table_cols, fk.referenced_columns[1], None),
                  DictGet(target_table_cols, S_table_key, None))>>
        ELSE <<None, None>>

\* the second loop of generate_drawio (lines 57-70) over the pairs that remain; an
\* edge is kept with the pair (table, foreign key) it was generated for
RECURSIVE DrawioEdgesAfter(_, _, _, _, _)
DrawioEdgesAfter(tables, pairs, column_id_map, edges, counter) ==
    IF pairs = <<>> THEN [edges |-> edges, counter |-> counter]
    ELSE LET table == tables[Head(pairs)[1]]
             fk == table.foreign_keys[Head(pairs)[2]]
             ends == DrawioEndpoints(table, fk, column_id_map)
         IN  IF Truthy(ends[1]) /\ Truthy(ends[2])
             THEN DrawioEdgesAfter(tables, Tail(pairs), column_id_map,
                                   Append(edges, [id |-> _next_id(counter), parent |-> S_root,
                                                  source |-> ends[1], target |-> ends[2],
                                                  fk |-> Head(pairs)]),
                                   counter + 1)
             ELSE DrawioEdgesAfter(tables, Tail(pairs), column_id_map, edges, counter)

-----------------------------------------------------------------------------
(* miro.py: MiroGenerator.generate *)

\* response.json()["id"]: the board gives every item it creates an id of its own
MiroItemId(b) == str(Len(b.shapes) + Len(b.connectors) + 1)

\* _create_shape(...): the board after the request
BoardWithShape(b) == [b EXCEPT !.shapes = Append(@, MiroItemId(b))]

RECURSIVE BoardWithShapes(_, _)
BoardWithShapes(b, n) == IF n = 0 THEN b ELSE BoardWithShape(BoardWithShapes(b, n - 1))

\* column_ids of _create_table_shape after the first k columns, lines 160-176; the
\* header is created before them
RECURSIVE MiroColumnIdsAfter(_, _, _)
MiroColumnIdsAfter(table, b, k) ==
    IF k = 0 THEN EmptyDict
    ELSE DictSet(MiroColumnIdsAfter(table, b, k - 1),
                 table.columns[k].name, MiroItemId(BoardWithShapes(b, k)))

\* _create_table_shape(table, opts) on board b: header id, column ids, board afterwards
_create_table_shape(table, b) ==
    [header_id |-> MiroItemId(b),
     column_ids |-> MiroColumnIdsAfter(table, b, Len(table.columns)),
     board |-> BoardWithShapes(b, 1 + Len(table.columns))]

\* the first loop of generate (lines 79-88) after the first k tables
RECURSIVE MiroTablesAfter(_, _, _)
MiroTablesAfter(tables, b, k) ==
    IF k = 0 THEN [m |-> NoMiro, board |-> b]
    ELSE LET before == MiroTablesAfter(tables, b, k - 1)
             table == tables[k]
             qualified_name == get_qualified_table_name(table)
             made == _create_table_shape(table, before.board)
         IN  [m |-> [table_shape_ids |-> DictSet(before.m.table_shape_ids,
                                                 qualified_name, made.header_id),
                     column_shape_ids |-> DictSet(before.m.column_shape_ids,
                                                  qualified_name, made.column_ids),
                     table_name_to_qualified |->
                         DictSet(before.m.table_name_to_qualified, table.name,
                                 Append(DictGet(before.m.table_name_to_qualified,
                                                table.name, <<>>),
                                        qualified_name)),
                     connectors_created |-> 0],
              board |-> made.board]

\* lines 96-105: target_qualified as line 108 reads it
MiroResolveTarget(table, fk, column_shape_ids, name_to_qualified) ==
    LET referenced == fk.referenced_table
        candidates == DictGet(name_to_qualified, referenced, <<>>)
    IN  IF referenced \in DOMAIN column_shape_ids THEN referenced
        ELSE IF Len(candidates) = 1 THEN candidates[1]
        ELSE IF Len(candidates) > 1 /\ Truthy(table.schema)
             THEN LET same_schema == SameSchema(candidates, table)
                  IN  IF Truthy(same_schema) THEN same_schema ELSE candidates[1]
        ELSE IF candidates # <<>> THEN candidates[1]
        ELSE referenced

\* lines 107-116: the pair (source_id, target_id) of one foreign key, None for an id
\* that was not found; a missing (None) and an empty dict of column ids are both false
MiroEndpoints(table, fk, m) ==
    LET source_qualified == get_qualified_table_name(table)
        target_qualified == MiroResolveTarget(table, fk, m.column_shape_ids,
                                              m.table_name_to_qualified)
        source_cols == DictGet(m.column_shape_ids, source_qualified, EmptyDict)
        target_cols == DictGet(m.column_shape_ids, target_qualified, EmptyDict)
    IN  IF DOMAIN source_cols # {} /\ DOMAIN target_cols # {}
        THEN <<DictGet(source_cols, fk.columns[1], None),
               Or(DictGet(target_cols, fk.referenced_columns[1], None),
                  DictGet(m.table_shape_ids, target_qualified, None))>>
        ELSE <<None, None>>

\* the second loop of generate (lines 92-120) over the pairs that remain; a
\* connector is kept with the pair (table, foreign key) it was created for
RECURSIVE MiroConnectorsAfter(_, _, _, _)
MiroConnectorsAfter(tables, pairs, m, b) ==
    IF pairs = <<>> THEN [m |-> m, board |-> b]
    ELSE LET table == tables[Head(pairs)[1]]
             fk == table.foreign_keys[Head(pairs)[2]]
             ends == MiroEndpoints(table, fk, m)
         IN  IF Truthy(ends[1]) /\ Truthy(ends[2])
             THEN MiroConnectorsAfter(
                      tables, Tail(pairs),
                      [m EXCEPT !.connectors_created = @ + 1],
                      [b EXCEPT !.connectors = Append(@, [id |-> MiroItemId(b),
                                                          startItem |-> ends[1],
                                                          endItem |-> ends[2],
                                                          fk |-> Head(pairs)])])
             ELSE MiroConnectorsAfter(tables, Tail(pairs), m, b)

-----------------------------------------------------------------------------
(* cli.py: a schema is laid out, then one generator runs on the result *)

\* cli.py lines 93-94: layout_schema(schema, LayoutOptions(direction=direction)), the
\* whole call
CliLayout(s, direction) ==
    /\ pc = "idle"
    /\ gen_pc = "idle"
    /\ schema' = s
    /\ opts' = DefaultOptions(direction)
    /\ prev' = <<>>
    /\ table_dims' = TableDimsAfter(s.tables, opts', Len(s.tables))
    /\ table_name_to_qualified' = NameToQualifiedAfter(s.tables, Len(s.tables))
    /\ g_edges' = ResolvedEdges(s.tables, table_dims', table_name_to_qualified')
    /\ g_nodes' = NodesAfterEdges(
                      { get_qualified_table_name(s.tables[k]) : k \in DOMAIN s.tables },
                      g_edges')
    /\ hl_called' = IF NeedsPlacement(g_nodes') THEN 1 ELSE 0
    /\ used_fallback' = (NeedsPlacement(g_nodes') /\ UsesFallback(g_nodes', g_edges'))
    /\ IF ~NeedsPlacement(g_nodes')
       THEN /\ positions' = EmptyDict
            /\ result' = <<PositionedSchema(s, table_dims', positions')>>
            /\ pc' = "done"
       ELSE IF g_nodes' \subseteq DOMAIN table_dims'
       THEN /\ \E generations \in GenerationOrders(Generations(g_nodes', g_edges')) :
                 positions' = _hierarchical_layout(generations, table_dims', opts')
            /\ result' = <<PositionedSchema(s, table_dims', positions')>>
            /\ pc' = "done"
       ELSE /\ positions' = EmptyDict
            /\ result' = <<>>
            /\ pc' = "KeyError"
    /\ UNCHANGED <<generator_vars, parallel_vars, parser>>

\* generate_drawio(positioned_schema) is entered: lines 41-47; the caller may
\* generate the document again
DrawioEnter ==
    /\ pc = "done"
    /\ gen_pc \in {"idle", "drawio_done"}
    /\ gen_pc' = "drawio_tables"
    /\ _cell_id_counter' = _reset_id_counter(_cell_id_counter)
    /\ drawio' = NoDrawio
    /\ UNCHANGED <<layout_vars, miro, board, parallel_vars, parser>>

\* lines 50-54: the cells of the tables and the id maps
DrawioTables ==
    /\ gen_pc = "drawio_tables"
    /\ gen_pc' = "drawio_edges"
    /\ LET after == DrawioTablesAfter(result[1].tables, _cell_id_counter,
                                      Len(result[1].tables))
       IN  /\ drawio' = after.d
           /\ _cell_id_counter' = after.counter
    /\ UNCHANGED <<layout_vars, miro, board, parallel_vars, parser>>

\* lines 57-73: the edges; the document is cells + edges
DrawioEdges ==
    /\ gen_pc = "drawio_edges"
    /\ gen_pc' = "drawio_done"
    /\ LET after == DrawioEdgesAfter(result[1].tables, FkPairs(result[1].tables, 1),
                                     drawio.column_id_map, drawio.edges, _cell_id_counter)
       IN  /\ drawio' = [drawio EXCEPT !.edges = after.edges]
           /\ _cell_id_counter' = after.counter
    /\ UNCHANGED <<layout_vars, miro, board, parallel_vars, parser>>

\* generate_miro(positioned_schema, ...): generate is entered and creates the shapes
\* of the tables, lines 70-88
MiroTables ==
    /\ pc = "done"
    /\ gen_pc = "idle"
    /\ gen_pc' = "miro_connectors"
    /\ LET after == MiroTablesAfter(result[1].tables, board, Len(result[1].tables))
       IN  /\ miro' = after.m
           /\ board' = after.board
    /\ UNCHANGED <<layout_vars, _cell_id_counter, drawio, parallel_vars, parser>>

\* lines 91-131: the connectors, and the MiroResult
MiroConnectors ==
    /\ gen_pc = "miro_connectors"
    /\ gen_pc' = "miro_done"
    /\ LET after == MiroConnectorsAfter(result[1].tables, FkPairs(result[1].tables, 1),
                                        miro, board)
       IN  /\ miro' = after.m
           /\ board' = after.board
    /\ UNCHANGED <<layout_vars, _cell_id_counter, drawio, parallel_vars, parser>>

NextGenerators ==
    \/ pc = "idle" /\ \E s \in Schemas, direction \in Directions : CliLayout(s, direction)
    \/ DrawioEnter
    \/ DrawioTables
    \/ DrawioEdges
    \/ MiroTables
    \/ MiroConnectors

SpecGenerators == Init /\ [][NextGenerators]_vars

-----------------------------------------------------------------------------
(* Properties of the generators *)

\* the id of the cell generate_drawio made for table i: the i-th cell under the root
DrawioTableCellId(i) == SelectSeq(drawio.cells, LAMBDA c : c.parent = S_root)[i].id

\* the ids of the cells of table i: its own cell and the cells of its columns
DrawioCellIdsOf(i) ==
    {DrawioTableCellId(i)}
        \cup { drawio.cells[k].id : k \in { n \in DOMAIN drawio.cells :
                                              drawio.cells[n].parent = DrawioTableCellId(i) } }

\* the number of shapes created for the tables before table i
RECURSIVE MiroShapesBefore(_)
MiroShapesBefore(i) ==
    IF i = 1 THEN 0 ELSE MiroShapesBefore(i - 1) + 1 + Len(Tables[i - 1].columns)

\* the ids of the shapes of table i: its header and the shapes of its columns
MiroShapeIdsOf(i) ==
    { board.shapes[k] : k \in (MiroShapesBefore(i) + 1)..(MiroShapesBefore(i) + 1
                                                           + Len(Tables[i].columns)) }

\* two tables of one simple name in different schemas
SameNamePairs ==
    { p \in (DOMAIN Tables) \X (DOMAIN Tables) :
        /\ p[1] # p[2]
        /\ Tables[p[1]].name = Tables[p[2]].name
        /\ EffectiveSchema(Tables[p[1]]) # EffectiveSchema(Tables[p[2]]) }

\* the table a foreign key resolves to by qualified name, as the layout resolves it
ResolvesTo(pair) ==
    ResolveTarget(Tables[pair[1]], Tables[pair[1]].foreign_keys[pair[2]],
                  table_dims, table_name_to_qualified)

\* MiroGenerator.generate keeps one entry per table of a same-name pair, and a
\* connector ends on a shape of the table its foreign key resolves to
C11_MiroQualifiedKeys ==
    (gen_pc \in {"miro_connectors", "miro_done"} /\ DistinctKeys /\ SameNamePairs # {}) =>
        /\ \A p \in SameNamePairs :
              /\ QN(p[1]) # QN(p[2])
              /\ miro.table_shape_ids[QN(p[1])] = board.shapes[MiroShapesBefore(p[1]) + 1]
              /\ miro.table_shape_ids[QN(p[2])] = board.shapes[MiroShapesBefore(p[2]) + 1]
              /\ miro.table_shape_ids[QN(p[1])] # miro.table_shape_ids[QN(p[2])]
              /\ DOMAIN miro.column_shape_ids[QN(p[1])]
                     = { Tables[p[1]].columns[k].name : k \in DOMAIN Tables[p[1]].columns }
        /\ \A n \in DOMAIN board.connectors :
              LET c == board.connectors[n]
              IN  /\ c.startItem \in MiroShapeIdsOf(c.fk[1])
                  /\ \E j \in DOMAIN Tables : /\ QN(j) = ResolvesTo(c.fk)
                                              /\ c.endItem \in MiroShapeIdsOf(j)

\* C11: for a schema with two tables of one simple name in different schemas,
\* generate_drawio and MiroGenerator.generate keep a separate id-map entry per
\* table (neither overwrites the other), and a foreign key is connected to an
\* element of the table it resolves to by qualified name.
C11_QualifiedKeys ==
    /\ C11_MiroQualifiedKeys
    /\ (gen_pc \in {"drawio_edges", "drawio_done"} /\ DistinctKeys) =>
         /\ \A p \in SameNamePairs :
               \E k1, k2 \in DOMAIN drawio.table_id_map :
                  /\ k1 # k2
                  /\ drawio.table_id_map[k1] = DrawioTableCellId(p[1])
                  /\ drawio.table_id_map[k2] = DrawioTableCellId(p[2])
                  /\ drawio.column_id_map[k1][S_table_key] = DrawioTableCellId(p[1])
                  /\ drawio.column_id_map[k2][S_table_key] = DrawioTableCellId(p[2])
         /\ SameNamePairs # {} =>
               \A n \in DOMAIN drawio.edges :
                  LET e == drawio.edges[n]
                  IN  /\ e.source \in DrawioCellIdsOf(e.fk[1])
                      /\ \E j \in DOMAIN Tables : /\ QN(j) = ResolvesTo(e.fk)
                                                  /\ e.target \in DrawioCellIdsOf(j)

-----------------------------------------------------------------------------
(* Two calls of layout_schema in progress at once (a service laying out many *)
(* schemas): a step of one call is one loop of layout_schema                 *)

\* the slip of keeping g, table_dims and table_name_to_qualified at module level: all
\* calls work on the same objects
LocalsOf_ModuleLevel(c) == 1

\* lines 31-36: the objects a call works on are created by that call
LocalsOf(c) == c

ParallelShapes ==
    { Table(S_u, None, <<col_id>>, <<S_id>>, <<>>, <<>>),
      Table(S_u, S_a, <<col_id>>, <<S_id>>, <<fk_o>>, <<>>),
      Table(S_o, S_a, <<col_id, col_uid>>, <<S_id>>, <<fk_u>>, <<>>) }

\* the schemas of the concurrent calls: up to two tables, with and without a cycle
ParallelSchemas ==
    { [tables |-> ts, dialect |-> "postgresql"] :
        ts \in { <<>> } \cup { <<a>> : a \in ParallelShapes }
                 \cup { <<p[1], p[2]>> : p \in { q \in ParallelShapes \X ParallelShapes :
                                                   q[1] # q[2] } } }

ParallelOptions == { DefaultOptions("TB"), CompactOptions("LR") }

InProgress(c) == calls[c].pc \notin {"idle", "done", "KeyError"}

\* layout_schema(s, o) is entered by call c: lines 28-36
ParEnter(c, s, o) ==
    /\ calls[c].pc = "idle"
    /\ calls' = [calls EXCEPT ![c] = [pc |-> "nodes", schema |-> s, opts |-> o,
                                      result |-> <<>>,
                                      overlaps |-> \E d \in Calls \ {c} : InProgress(d)]]
    /\ locals' = [locals EXCEPT ![LocalsOf(c)] = NoLocals]
    /\ UNCHANGED <<layout_vars, generator_vars, parser>>

\* lines 38-47
ParAddNodes(c) ==
    /\ calls[c].pc = "nodes"
    /\ calls' = [calls EXCEPT ![c].pc = "edges"]
    /\ LET tables == calls[c].schema.tables
       IN  locals' = [locals EXCEPT
               ![LocalsOf(c)].table_dims = TableDimsAfter(tables, calls[c].opts, Len(tables)),
               ![LocalsOf(c)].table_name_to_qualified = NameToQualifiedAfter(tables, Len(tables)),
               ![LocalsOf(c)].g_nodes = { get_qualified_table_name(tables[k]) :
                                            k \in DOMAIN tables }]
    /\ UNCHANGED <<layout_vars, generator_vars, parser>>

\* lines 50-68
ParAddEdges(c) ==
    /\ calls[c].pc = "edges"
    /\ calls' = [calls EXCEPT ![c].pc = "layout"]
    /\ LET l == locals[LocalsOf(c)]
           edges == ResolvedEdges(calls[c].schema.tables, l.table_dims,
                                  l.table_name_to_qualified)
       IN  locals' = [locals EXCEPT ![LocalsOf(c)].g_edges = edges,
                                    ![LocalsOf(c)].g_nodes = NodesAfterEdges(l.g_nodes, edges)]
    /\ UNCHANGED <<layout_vars, generator_vars, parser>>

\* lines 71-74; table_dims[node] of a node without dimensions is a KeyError
ParPlace(c) ==
    /\ calls[c].pc = "layout"
    /\ LET l == locals[LocalsOf(c)]
       IN  IF ~NeedsPlacement(l.g_nodes)
           THEN /\ locals' = [locals EXCEPT ![LocalsOf(c)].positions = EmptyDict]
                /\ calls' = [calls EXCEPT ![c].pc = "emit"]
           ELSE IF l.g_nodes \subseteq DOMAIN l.table_dims
           THEN /\ \E generations \in GenerationOrders(Generations(l.g_nodes, l.g_edges)) :
                     locals' = [locals EXCEPT ![LocalsOf(c)].positions =
                                   _hierarchical_layout(generations, l.table_dims,
                                                        calls[c].opts)]
                /\ calls' = [calls EXCEPT ![c].pc = "emit"]
           ELSE /\ locals' = locals
                /\ calls' = [calls EXCEPT ![c].pc = "KeyError"]
    /\ UNCHANGED <<layout_vars, generator_vars, parser>>

\* lines 76-98; table_dims[qualified_name] of a table without dimensions is a KeyError
ParEmit(c) ==
    /\ calls[c].pc = "emit"
    /\ LET l == locals[LocalsOf(c)]
           tables == calls[c].schema.tables
       IN  IF \A k \in DOMAIN tables : get_qualified_table_name(tables[k]) \in DOMAIN l.table_dims
           THEN calls' = [calls EXCEPT
                            ![c].pc = "done",
                            ![c].result = <<PositionedSchema(calls[c].schema, l.table_dims,
                                                             l.positions)>>]
           ELSE calls' = [calls EXCEPT ![c].pc = "KeyError"]
    /\ UNCHANGED <<locals, layout_vars, generator_vars, parser>>

NextParallel ==
    \/ \E c \in Calls : /\ calls[c].pc = "idle"
                        /\ \E s \in ParallelSchemas, o \in ParallelOptions : ParEnter(c, s, o)
    \/ \E c \in Calls : ParAddNodes(c)
    \/ \E c \in Calls : ParAddEdges(c)
    \/ \E c \in Calls : ParPlace(c)
    \/ \E c \in Calls : ParEmit(c)

SpecParallel == Init /\ [][NextParallel]_vars

\* layout_schema(s, o) run alone, from entry to return
LayoutAlone(s, o) ==
    LET dims == TableDimsAfter(s.tables, o, Len(s.tables))
        name_to_qualified == NameToQualifiedAfter(s.tables, Len(s.tables))
        edges == ResolvedEdges(s.tables, dims, name_to_qualified)
        nodes == NodesAfterEdges({ get_qualified_table_name(s.tables[k]) :
                                     k \in DOMAIN s.tables }, edges)
        pos == IF NeedsPlacement(nodes)
               THEN _hierarchical_layout(
                        CHOOSE generations \in GenerationOrders(Generations(nodes, edges)) : TRUE,
                        dims, o)
               ELSE EmptyDict
    IN  PositionedSchema(s, dims, pos)

\* C12: under every interleaving of two calls of layout_schema on schemas that are
\* not changed meanwhile, no call raises, each call returns the PositionedSchema
\* it returns when run alone, and the dimensions and the graph a call works on are
\* those of its own schema.
C12_ParallelSafety ==
    \A c \in Calls :
        /\ calls[c].pc # "KeyError"
        /\ calls[c].pc = "done" =>
             calls[c].result = <<LayoutAlone(calls[c].schema, calls[c].opts)>>
        /\ calls[c].pc \in {"edges", "layout", "emit"} =>
             /\ locals[LocalsOf(c)].table_dims
                  = TableDimsAfter(calls[c].schema.tables, calls[c].opts,
                                   Len(calls[c].schema.tables))
             /\ { get_qualified_table_name(calls[c].schema.tables[k]) :
                    k \in DOMAIN calls[c].schema.tables } = locals[LocalsOf(c)].g_nodes

\* two calls on different schemas, one entered while the other was in progress, both
\* returned, one through the cycle fallback
C12_Witness ==
    /\ calls[1].pc = "done"
    /\ calls[2].pc = "done"
    /\ calls[2].overlaps
    /\ calls[1].schema # calls[2].schema
    /\ Len(calls[1].schema.tables) = 2
    /\ Len(calls[2].schema.tables) = 2
    /\ calls[1].opts # calls[2].opts
    /\ locals[LocalsOf(1)].g_edges # {}

-----------------------------------------------------------------------------
(* Properties of the layout, continued *)

\* the foreign keys of table i that name table i itself: by its qualified name, or
\* by its simple name when no other table has that simple name
SelfReferences(i) ==
    { k \in DOMAIN Tables[i].foreign_keys :
        LET referenced == Tables[i].foreign_keys[k].referenced_table
        IN  \/ referenced = QN(i)
            \/ /\ referenced = Tables[i].name
               /\ \A j \in DOMAIN Tables : Tables[j].name = referenced => j = i }

\* the number of edges of g that end in n, a self-loop being one of them
Incoming(n) == Cardinality({ e \in g_edges : e[2] = n })

\* C13: a foreign key that resolves to its own table adds a self-loop and raises
\* nothing; the layout goes through the cycle fallback, every table gets the
\* position of its node, and the self-loop counts 1 in the in-degree that ranks
\* the tables.
C13_SelfReference ==
    /\ NoException
    /\ AfterEdges =>
         \A i \in DOMAIN Tables :
            SelfReferences(i) # {} =>
               /\ <<QN(i), QN(i)>> \in g_edges
               /\ Incoming(QN(i)) >= 1
               /\ pc \in {"emit", "done"} =>
                     /\ used_fallback
                     /\ hl_called = 1
                     /\ \A j \in DOMAIN Tables : QN(j) \in DOMAIN positions
               /\ Returned =>
                     \A j \in DOMAIN Tables :
                        /\ <<Out[j].x, Out[j].y>> = positions[QN(j)]
                        /\ Incoming(QN(j)) < Incoming(QN(i))
                              => RankCoord(Out[j]) < RankCoord(Out[i])
                        /\ Incoming(QN(j)) = Incoming(QN(i))
                              => RankCoord(Out[j]) = RankCoord(Out[i])

\* a table whose only incoming edge is its self-loop was laid out beside a table
\* without incoming edges and one with an edge from another table
C13_Witness ==
    /\ Returned
    /\ \E i, j, k \in DOMAIN Tables :
         /\ SelfReferences(i) # {}
         /\ Incoming(QN(i)) = 1
         /\ Incoming(QN(j)) = 0
         /\ Incoming(QN(k)) = 1
         /\ k # i
         /\ <<QN(k), QN(k)>> \notin g_edges

-----------------------------------------------------------------------------
(* postgresql.py: _parse_create_table, the table-level UNIQUE constraints    *)
(* (lines 94-110).  The statement is given as sqlglot parsed it: the table   *)
(* name and the expressions of the table, here its UNIQUE constraints, each  *)
(* with the names of its columns.                                            *)

S_underscore == <<95>>                               \* "_"
S_unique == <<95, 117, 110, 105, 113, 117, 101>>     \* "_unique"
S_t == <<116>>                                       \* "t"
S_a_b == <<97, 95, 98>>                              \* "a_b"

\* sep.join(parts)
RECURSIVE Join(_, _)
Join(sep, parts) ==
    IF parts = <<>> THEN <<>>
    ELSE IF Len(parts) = 1 THEN parts[1]
    ELSE parts[1] \o sep \o Join(sep, Tail(parts))

\* the slip of naming the index by its first column
UniqueIndexName_FirstColumn(table_name, unique_cols) ==
    table_name \o S_underscore \o unique_cols[1] \o S_unique

\* f"{table_name}_{'_'.join(unique_cols)}_unique"
UniqueIndexName(table_name, unique_cols) ==
    table_name \o S_underscore \o Join(S_underscore, unique_cols) \o S_unique

\* Index(name, columns, unique)
Index(name, columns, unique) == [name |-> name, columns |-> columns, unique |-> unique]

\* lines 94-110: indexes after one UNIQUE constraint; its unique_cols is empty when the
\* constraint holds no column list
IndexesAfterUnique(table_name, indexes, unique_cols) ==
    IF unique_cols # <<>>
    THEN Append(indexes, Index(UniqueIndexName(table_name, unique_cols), unique_cols, TRUE))
    ELSE indexes

MaxConstraints == 2

ConstraintColumnNames == {S_a, S_b, S_a_b}

\* the column lists of a UNIQUE constraint: none, one column or two different columns
UniqueColumnLists ==
    { <<>> } \cup { <<c>> : c \in ConstraintColumnNames }
        \cup { <<p[1], p[2]>> : p \in { q \in ConstraintColumnNames \X ConstraintColumnNames :
                                          q[1] # q[2] } }

\* the expressions of a CREATE TABLE statement
ExpressionLists == UNION { [1..n -> UniqueColumnLists] : n \in 0..MaxConstraints }

ParsedTableNames == {S_t, S_a_b}

\* _parse_create_table(stmt) is entered: lines 44-55
ParseEnter(table_name, expressions) ==
    /\ parser.pc = "idle"
    /\ parser' = [pc |-> "expressions", table_name |-> table_name,
                  expressions |-> expressions, position |-> 0, indexes |-> <<>>]
    /\ UNCHANGED <<layout_vars, generator_vars, parallel_vars>>

\* one turn of the loop of line 58, on a UNIQUE constraint
ParseExpression ==
    /\ parser.pc = "expressions"
    /\ parser.position < Len(parser.expressions)
    /\ parser' = [parser EXCEPT
                    !.position = @ + 1,
                    !.indexes = IndexesAfterUnique(parser.table_name, @,
                                                   parser.expressions[parser.position + 1])]
    /\ UNCHANGED <<layout_vars, generator_vars, parallel_vars>>

\* lines 112-125: the Table is returned with the indexes
ParseReturn ==
    /\ parser.pc = "expressions"
    /\ parser.position = Len(parser.expressions)
    /\ parser' = [parser EXCEPT !.pc = "returned"]
    /\ UNCHANGED <<layout_vars, generator_vars, parallel_vars>>

NextParser ==
    \/ parser.pc = "idle" /\ \E table_name \in ParsedTableNames, expressions \in ExpressionLists :
                                 ParseEnter(table_name, expressions)
    \/ ParseExpression
    \/ ParseReturn

SpecParser == Init /\ [][NextParser]_vars

\* s holds part as a substring
Contains(s, part) ==
    \E k \in 0..(Len(s) - Len(part)) : SubSeq(s, k + 1, k + Len(part)) = part

\* the constraints of the statement that have columns, in their order
ConstraintsWithColumns == SelectSeq(parser.expressions, LAMBDA cols : cols # <<>>)

\* every UNIQUE constraint with columns gives one Index, in order, unique, over its
\* columns, named <table>_<columns joined by _>_unique, the name holding each column
C14_IndexNameFormat ==
    parser.pc = "returned" =>
        /\ Len(parser.indexes) = Len(ConstraintsWithColumns)
        /\ \A n \in DOMAIN parser.indexes :
              LET index == parser.indexes[n]
                  cols == ConstraintsWithColumns[n]
                  name == index.name
              IN  /\ index.unique = TRUE
                  /\ index.columns = cols
                  /\ StartsWith(name, parser.table_name \o S_underscore)
                  /\ SubSeq(name, Len(name) - 6, Len(name)) = S_unique
                  /\ Len(name) = Len(parser.table_name) + 1 + Len(Join(<<>>, cols))
                                    + (Len(cols) - 1) + 7
                  /\ \A k \in DOMAIN cols : Contains(name, cols[k])

\* C14: two table-level UNIQUE constraints of one table over different column lists
\* give two Index records (unique) with different names, each name being
\* <table>_<columns joined by _>_unique and holding its column names.
C14_UniqueIndexNames ==
    /\ C14_IndexNameFormat
    /\ parser.pc = "returned" =>
         \A m, n \in DOMAIN parser.indexes :
            parser.indexes[m].columns # parser.indexes[n].columns
               => parser.indexes[m].name # parser.indexes[n].name

\* the nodes with an edge to n
DirectPredecessors(n) == { e[1] : e \in { d \in g_edges : d[2] = n } }

\* the generation index (from 0) of the nodes, read off the positions: the nodes of
\* one generation share the rank coordinate, and the generations follow each other
\* along it
RankValue(n) == IF opts.direction = "TB" THEN positions[n][2] ELSE positions[n][1]

GenerationIndex(n) == Cardinality({ RankValue(m) : m \in { v \in g_nodes : RankValue(v) < RankValue(n) } })

\* C15: when the graph of resolved foreign keys (referencing -> referenced) has no
\* cycle, generation 0 is the set of nodes without incoming edge, every other
\* node lies in the generation after the last generation of its direct
\* predecessors, and the generations partition the nodes.
C15_TopologicalLayering ==
    (pc \in {"emit", "done"} /\ ~HasCycle(g_edges)) =>
        /\ ~used_fallback
        /\ DOMAIN positions = g_nodes
        /\ \A n \in g_nodes :
              /\ DirectPredecessors(n) = {} <=> GenerationIndex(n) = 0
              /\ DirectPredecessors(n) # {} =>
                    GenerationIndex(n)
                       = 1 + MaxOfSet({ GenerationIndex(p) : p \in DirectPredecessors(n) })
        /\ LET generations == Generations(g_nodes, g_edges)
           IN  /\ UNION { generations[k] : k \in DOMAIN generations } = g_nodes
               /\ \A k \in DOMAIN generations :
                     /\ generations[k] # {}
                     /\ \A n \in generations[k] : GenerationIndex(n) = k - 1

\* an acyclic graph was laid out in which a node has direct predecessors in two
\* different generations
C15_Witness ==
    /\ pc = "done"
    /\ ~HasCycle(g_edges)
    /\ \E n \in g_nodes : \E p, q \in DirectPredecessors(n) :
         GenerationIndex(p) # GenerationIndex(q)

\* table i has a foreign key that resolves to table j
DependsOn(i, j) ==
    \E k \in DOMAIN Tables[i].foreign_keys :
        ResolveTarget(Tables[i], Tables[i].foreign_keys[k], table_dims,
                      table_name_to_qualified) = QN(j)

TableGeneration(i) == GenerationIndex(QN(i))

\* C16: when the graph of resolved foreign keys has no cycle, every table placed in
\* a generation k > 0 depends on (has a resolved foreign key to) a table placed in
\* an earlier generation.
C16_RankDirection ==
    (Returned /\ ~HasCycle(g_edges)) =>
        \A i \in DOMAIN Tables :
            TableGeneration(i) > 0 =>
                \E j \in DOMAIN Tables :
                    DependsOn(i, j) /\ TableGeneration(j) < TableGeneration(i)

\* C16, amended: when the graph of resolved foreign keys has no cycle, every table
\* placed in a generation k > 0 is depended on by (is the target of a resolved
\* foreign key of) a table placed in generation k - 1, and generation 0 holds
\* exactly the tables that no table depends on; a table lies after every table
\* that depends on it.
C16_RankDirectionAmended ==
    (Returned /\ ~HasCycle(g_edges)) =>
        \A i \in DOMAIN Tables :
            /\ RankCoord(Out[i]) = RankValue(QN(i))
            /\ TableGeneration(i) > 0 =>
                  \E j \in DOMAIN Tables :
                      DependsOn(j, i) /\ TableGeneration(j) = TableGeneration(i) - 1
            /\ TableGeneration(i) = 0 <=> (\A j \in DOMAIN Tables : ~DependsOn(j, i))
            /\ \A j \in DOMAIN Tables :
                  DependsOn(j, i) => TableGeneration(j) < TableGeneration(i)

\* a chain of three tables was laid out over three generations
C16_Witness ==
    /\ Returned
    /\ ~HasCycle(g_edges)
    /\ \E i, j, k \in DOMAIN Tables :
         /\ DependsOn(i, j) /\ DependsOn(j, k)
         /\ TableGeneration(i) = 0 /\ TableGeneration(j) = 1 /\ TableGeneration(k) = 2

\* the pairs (referencing node, node its foreign key resolves to), one pair for
\* every foreign key of every table
Dependencies ==
    UNION { { <<QN(i), ResolveTarget(Tables[i], Tables[i].foreign_keys[k], table_dims,
                                     table_name_to_qualified)>> :
                k \in DOMAIN Tables[i].foreign_keys } : i \in DOMAIN Tables }

\* the nodes from which a resolved foreign key leads to node n: however many foreign
\* keys a table has to n, it is one node
Referrers(deps, n) == { d[1] : d \in { e \in deps : e[2] = n } }

InDegreeOf(deps, n) == Cardinality(Referrers(deps, n))

\* C17: when the graph has a directed cycle, the generations are the non-empty
\* classes of nodes of equal in-degree (several foreign keys between the same two
\* tables counting once), one generation per in-degree value, in ascending order
\* of in-degree; every node is in exactly one generation.
C17_InDegreeFallback ==
    (pc \in {"emit", "done"} /\ HasCycle(g_edges)) =>
        /\ used_fallback
        /\ DOMAIN positions = g_nodes
        /\ LET deps == Dependencies
               generations == Generations(g_nodes, g_edges)
           IN  /\ \A n \in g_nodes :
                     GenerationIndex(n)
                        = Cardinality({ InDegreeOf(deps, m) :
                                          m \in { v \in g_nodes :
                                                    InDegreeOf(deps, v) < InDegreeOf(deps, n) } })
               /\ UNION { generations[k] : k \in DOMAIN generations } = g_nodes
               /\ Len(generations) = Cardinality({ InDegreeOf(deps, n) : n \in g_nodes })
               /\ \A k \in DOMAIN generations :
                     /\ generations[k] # {}
                     /\ \A n, m \in generations[k] : InDegreeOf(deps, n) = InDegreeOf(deps, m)
                     /\ \A j \in DOMAIN generations : \A n \in generations[k], m \in generations[j] :
                           k < j => InDegreeOf(deps, n) < InDegreeOf(deps, m)

\* a graph with a cycle was laid out in two generations, a table of the cycle having
\* two foreign keys to one table, which count once
C17_Witness ==
    /\ Returned
    /\ HasCycle(g_edges)
    /\ \E n, m \in g_nodes :
         /\ InDegreeOf(Dependencies, n) = 0
         /\ InDegreeOf(Dependencies, m) = 1
         /\ GenerationIndex(m) = 1
    /\ \E i \in DOMAIN Tables : \E k1, k2 \in DOMAIN Tables[i].foreign_keys :
         LET target(k) == ResolveTarget(Tables[i], Tables[i].foreign_keys[k], table_dims,
                                        table_name_to_qualified)
         IN  /\ k1 # k2
             /\ target(k1) = target(k2)
             /\ target(k1) \in g_nodes
             /\ InDegreeOf(Dependencies, target(k1)) = 1
             /\ <<target(k1), QN(i)>> \in TransitiveClosure(g_edges)

\* the qualified names of the tables
KnownQualifiedNames == { QN(j) : j \in DOMAIN Tables }

\* the tables whose simple name is `name`
TablesNamed(name) == { j \in DOMAIN Tables : Tables[j].name = name }

\* the node the foreign key k of table i resolves to
TargetOf(i, k) ==
    ResolveTarget(Tables[i], Tables[i].foreign_keys[k], table_dims, table_name_to_qualified)

\* C18: a referenced_table that is no known qualified name and is the simple name
\* of exactly one table gives the edge to that table, whatever the schemas of the
\* two tables; a referenced_table that is a known qualified name gives the edge
\* to that name.
C18_UniqueSimpleName ==
    AfterEdges =>
        \A i \in DOMAIN Tables : \A k \in DOMAIN Tables[i].foreign_keys :
            LET referenced == Tables[i].foreign_keys[k].referenced_table
                target == TargetOf(i, k)
                known == referenced \in KnownQualifiedNames
                named == TablesNamed(referenced)
            IN  /\ (~known /\ Cardinality(named) = 1) =>
                       \A j \in named :
                          /\ target = QN(j)
                          /\ <<QN(i), QN(j)>> \in g_edges
                /\ known =>
                       /\ target = referenced
                       /\ <<QN(i), referenced>> \in g_edges
                /\ Len(Tables[i].foreign_keys) = 1 /\ DistinctKeys =>
                       \A e \in g_edges : e[1] = QN(i) => e[2] = target

\* the edges were added for a schema of three tables in which a table of schema
\* "a" names by its simple name the only table of that name, which lies in
\* schema "b"
C18_Witness ==
    /\ AfterEdges
    /\ Len(Tables) = 3
    /\ \E i \in DOMAIN Tables : \E k \in DOMAIN Tables[i].foreign_keys :
         LET referenced == Tables[i].foreign_keys[k].referenced_table
         IN  /\ referenced \notin KnownQualifiedNames
             /\ Cardinality(TablesNamed(referenced)) = 1
             /\ Tables[i].schema = S_a
             /\ \E j \in TablesNamed(referenced) :
                  /\ Tables[j].schema = S_b
                  /\ <<QN(i), QN(j)>> \in g_edges

\* the edges were added for a schema in which a reference made from a table with
\* a schema is the qualified name of a table while two tables have that simple
\* name
C18_WitnessQualified ==
    /\ AfterEdges
    /\ \E i \in DOMAIN Tables : \E k \in DOMAIN Tables[i].foreign_keys :
         LET referenced == Tables[i].foreign_keys[k].referenced_table
         IN  /\ referenced \in KnownQualifiedNames
             /\ Cardinality(TablesNamed(referenced)) = 2
             /\ Truthy(Tables[i].schema)

\* the table that appears first in the schema's table order among those named `name`
FirstNamed(name) == CHOOSE j \in TablesNamed(name) : \A m \in TablesNamed(name) : j <= m

\* the foreign key k of table i names, by a name that is no known qualified name,
\* two or more tables
Ambiguous(i, k) ==
    LET referenced == Tables[i].foreign_keys[k].referenced_table
    IN  /\ referenced \notin KnownQualifiedNames
        /\ Cardinality(TablesNamed(referenced)) >= 2

\* the edge of the foreign key k of table i goes to the first table of that name
TargetsFirst(i, k) ==
    LET referenced == Tables[i].foreign_keys[k].referenced_table
    IN  /\ TargetOf(i, k) = QN(FirstNamed(referenced))
        /\ <<QN(i), QN(FirstNamed(referenced))>> \in g_edges

\* the half of C19 the code keeps: an ambiguous simple name referenced from a table
\* without a schema gives the edge to the first table of that name.
C19_NoSchemaFirstCandidate ==
    AfterEdges =>
        \A i \in DOMAIN Tables : \A k \in DOMAIN Tables[i].foreign_keys :
            (Ambiguous(i, k) /\ ~Truthy(Tables[i].schema)) => TargetsFirst(i, k)

\* C19: an ambiguous simple name referenced from a table that has no schema, or
\* whose schema no table of that name has, gives the edge to the table of that
\* name that appears first in the schema's table order.
C19_FirstCandidate ==
    AfterEdges =>
        \A i \in DOMAIN Tables : \A k \in DOMAIN Tables[i].foreign_keys :
            LET referenced == Tables[i].foreign_keys[k].referenced_table
            IN  (/\ Ambiguous(i, k)
                 /\ \/ ~Truthy(Tables[i].schema)
                    \/ \A j \in TablesNamed(referenced) :
                          Tables[j].schema # Tables[i].schema) => TargetsFirst(i, k)

\* the generations of the graph, and the one that holds the node n
GraphGenerations == Generations(g_nodes, g_edges)

GenerationOf(gens, n) == CHOOSE g \in DOMAIN gens : n \in gens[g]

\* the sum of width + node_gap over a set of nodes
RECURSIVE RowExtent(_)
RowExtent(S) ==
    IF S = {} THEN 0
    ELSE LET m == CHOOSE x \in S : TRUE
         IN  table_dims[m][1] + opts.node_gap + RowExtent(S \ {m})

\* the sum of (maximum node height + rank_gap) over the generations before g
RECURSIVE RowsBefore(_, _)
RowsBefore(gens, g) ==
    IF g <= 1 THEN 0
    ELSE RowsBefore(gens, g - 1)
           + MaxOfSet({ table_dims[m][2] : m \in gens[g - 1] }) + opts.rank_gap

\* _hierarchical_layout has filled positions
Placed == pc \in {"emit", "done"} /\ hl_called = 1

\* C20: with direction TB a node is placed at x = 20 + the sum of width + node_gap
\* over the lexicographically earlier nodes of its generation and at y = 20 + the
\* sum of (maximum node height + rank_gap) over the generations before its own;
\* the nodes of one generation share their y.
C20_PlacementTB ==
    (Placed /\ opts.direction = "TB") =>
        /\ DOMAIN positions = g_nodes
        /\ LET gens == GraphGenerations
           IN  \A n \in g_nodes :
                 LET g == GenerationOf(gens, n)
                     earlier == { m \in gens[g] : StrLess(m, n) }
                 IN  /\ positions[n][1] = Origin + RowExtent(earlier)
                     /\ positions[n][2] = Origin + RowsBefore(gens, g)
                     /\ \A m \in gens[g] : positions[m][2] = positions[n][2]

\* a TB layout placed two nodes of different widths and heights in one generation
\* and a node in the generation below them
C20_Witness ==
    /\ Placed
    /\ opts.direction = "TB"
    /\ \E n, m, p \in g_nodes :
         /\ n # m
         /\ GenerationOf(GraphGenerations, n) = GenerationOf(GraphGenerations, m)
         /\ table_dims[n][1] # table_dims[m][1]
         /\ table_dims[n][2] # table_dims[m][2]
         /\ GenerationOf(GraphGenerations, p) = GenerationOf(GraphGenerations, n) + 1

\* the sum of height + node_gap over a set of nodes
RECURSIVE ColumnExtent(_)
ColumnExtent(S) ==
    IF S = {} THEN 0
    ELSE LET m == CHOOSE x \in S : TRUE
         IN  table_dims[m][2] + opts.node_gap + ColumnExtent(S \ {m})

\* the sum of (maximum node width + rank_gap) over the generations before g
RECURSIVE ColumnsBefore(_, _)
ColumnsBefore(gens, g) ==
    IF g <= 1 THEN 0
    ELSE ColumnsBefore(gens, g - 1)
           + MaxOfSet({ table_dims[m][1] : m \in gens[g - 1] }) + opts.rank_gap

\* the dimensions with width and height swapped
Transposed(dims) == [n \in DOMAIN dims |-> <<dims[n][2], dims[n][1]>>]

\* the elements of a set in some order
RECURSIVE AsSequence(_)
AsSequence(S) ==
    IF S = {} THEN <<>>
    ELSE LET m == CHOOSE x \in S : TRUE
         IN  <<m>> \o AsSequence(S \ {m})

\* the TB positions of the graph for the transposed dimensions
TransposedTB ==
    LET gens == GraphGenerations
    IN  PlaceGenerationsTB([g \in DOMAIN gens |-> AsSequence(gens[g])],
                           Transposed(table_dims), opts, Origin, EmptyDict)

\* C21: with direction LR a node is placed at x = 20 + the sum of (maximum node
\* width + rank_gap) over the generations before its own and at y = 20 + the sum
\* of height + node_gap over the lexicographically earlier nodes of its
\* generation; the nodes of one generation share their x; the position is the TB
\* position for swapped widths and heights, with x and y swapped.
C21_PlacementLR ==
    (Placed /\ opts.direction = "LR") =>
        /\ DOMAIN positions = g_nodes
        /\ LET gens == GraphGenerations
               tb == TransposedTB
           IN  \A n \in g_nodes :
                 LET g == GenerationOf(gens, n)
                     earlier == { m \in gens[g] : StrLess(m, n) }
                 IN  /\ positions[n][1] = Origin + ColumnsBefore(gens, g)
                     /\ positions[n][2] = Origin + ColumnExtent(earlier)
                     /\ \A m \in gens[g] : positions[m][1] = positions[n][1]
                     /\ positions[n] = <<tb[n][2], tb[n][1]>>

\* an LR layout placed two nodes of different widths and heights in one generation
\* and a node in the generation to their right
C21_Witness ==
    /\ Placed
    /\ opts.direction = "LR"
    /\ \E n, m, p \in g_nodes :
         /\ n # m
         /\ GenerationOf(GraphGenerations, n) = GenerationOf(GraphGenerations, m)
         /\ table_dims[n][1] # table_dims[m][1]
         /\ table_dims[n][2] # table_dims[m][2]
         /\ GenerationOf(GraphGenerations, p) = GenerationOf(GraphGenerations, n) + 1
         /\ positions[p][1] > positions[n][1]

\* the character count of "name: type" with its tags
LineLength(col) ==
    Len(col.name) + 2 + Len(col.type)
        + (IF col.primary_key THEN 3 ELSE 0)
        + (IF col.references # None THEN 3 ELSE 0)
        + (IF ~col.nullable /\ ~col.primary_key THEN 3 ELSE 0)

\* L: the maximum character count over the simple name and the column lines
LongestLine(t) ==
    MaxOfSet({ Len(t.name) } \cup { LineLength(t.columns[k]) : k \in DOMAIN t.columns })

WidthOf(t) == Max2(opts.min_table_width, LongestLine(t) * opts.char_width + 2 * opts.padding)

\* a column "uid: INT" under every combination of nullable, primary key and reference
FlagColumns ==
    { Column(S_uid, S_INT, nullable, primary_key, references) :
        nullable \in BOOLEAN, primary_key \in BOOLEAN, references \in {None, <<S_u, S_id>>} }

\* C22: the width is max(min_table_width, L * char_width + 2 * padding), L being the
\* maximum character count over the simple name and the lines "name: type" with
\* " PK" for a primary key, " FK" for a reference and " NN" for a column that is
\* neither nullable nor primary key; without columns L is the length of the name.
C22_WidthFormula ==
    pc = "edges" =>
        /\ \A i \in DOMAIN Tables :
             LET width == _calculate_table_dimensions(Tables[i], opts)[1]
             IN  /\ width = WidthOf(Tables[i])
                 /\ Len(Tables[i].columns) = 0 =>
                       width = Max2(opts.min_table_width,
                                    Len(Tables[i].name) * opts.char_width + 2 * opts.padding)
                 /\ DistinctKeys => table_dims[QN(i)][1] = width
        /\ \A c \in FlagColumns :
             /\ Len(ColumnLine(c)) = LineLength(c)
             /\ Len(Tables) > 0 =>
                   LET t == [Tables[1] EXCEPT !.columns = Append(@, c)]
                   IN  _calculate_table_dimensions(t, opts)[1] = WidthOf(t)

\* the dimensions were computed for a table without columns, a table made wider
\* than min_table_width by a line tagged FK and NN that is longer than its name,
\* and a table with a primary key column whose name is its longest line
C22_Witness ==
    /\ pc = "edges"
    /\ DistinctKeys
    /\ \E i, j, k \in DOMAIN Tables :
         /\ Len(Tables[i].columns) = 0
         /\ \E c \in DOMAIN Tables[j].columns :
              /\ Tables[j].columns[c].references # None
              /\ ~Tables[j].columns[c].nullable
              /\ LineLength(Tables[j].columns[c]) > Len(Tables[j].name)
              /\ table_dims[QN(j)][1]
                   = LineLength(Tables[j].columns[c]) * opts.char_width + 2 * opts.padding
         /\ table_dims[QN(j)][1] > opts.min_table_width
         /\ \E c \in DOMAIN Tables[k].columns : Tables[k].columns[c].primary_key
         /\ table_dims[QN(k)][1] = Len(Tables[k].name) * opts.char_width + 2 * opts.padding
         /\ table_dims[QN(k)][1] > table_dims[QN(j)][1]

\* the height of a table of n columns
HeightOf(n) == (opts.row_height + 4) + n * opts.row_height + opts.padding

\* the table renamed and with every column replaced by another one
Rewritten(t, name, c) == [t EXCEPT !.name = name, !.columns = [k \in DOMAIN @ |-> c]]

\* C23: the height is (row_height + 4) + number of columns * row_height + padding,
\* whatever the columns hold and whatever the table is called; under the default
\* options a table of n columns is 50 + 26 * n high.
C23_HeightFormula ==
    pc = "edges" =>
        /\ \A i \in DOMAIN Tables :
             LET n == Len(Tables[i].columns)
                 height == _calculate_table_dimensions(Tables[i], opts)[2]
             IN  /\ height = HeightOf(n)
                 /\ DistinctKeys => table_dims[QN(i)][2] = HeightOf(n)
                 /\ opts = DefaultOptions(opts.direction) => height = 50 + 26 * n
        /\ Len(Tables) > 0 =>
             \A c \in FlagColumns : \A name \in {S_u, S_long} :
                _calculate_table_dimensions(Rewritten(Tables[1], name, c), opts)[2]
                   = HeightOf(Len(Tables[1].columns))

\* the dimensions were computed under the default options for tables of no, one
\* and two columns: 50, 76 and 102 high
C23_Witness ==
    /\ pc = "edges"
    /\ opts = DefaultOptions("TB")
    /\ DistinctKeys
    /\ \E i, j, k \in DOMAIN Tables :
         /\ Len(Tables[i].columns) = 0 /\ table_dims[QN(i)][2] = 50
         /\ Len(Tables[j].columns) = 1 /\ table_dims[QN(j)][2] = 76
         /\ Len(Tables[k].columns) = 2 /\ table_dims[QN(k)][2] = 102

\* the returned table i has the dimensions estimated from the input table i
OwnDimensions(i) ==
    <<Out[i].width, Out[i].height>> = _calculate_table_dimensions(Tables[i], opts)

\* the half of C24 the code keeps: when no two tables share a qualified name, every
\* returned table has the dimensions estimated from its own name and columns.
C24_OwnDimensionsDistinctKeys ==
    (Returned /\ DistinctKeys) => \A i \in DOMAIN Tables : OwnDimensions(i)

\* C24: every returned table has the width and height estimated from its own name
\* and columns, whatever other tables the schema holds, tables of the same
\* qualified name included.
C24_OwnDimensions ==
    Returned => \A i \in DOMAIN Tables : OwnDimensions(i)

\* C25: a call of layout_schema leaves its Schema as it was given: from the entry
\* of the call on, no step changes the table list or a table's name, schema,
\* columns, primary_key, foreign_keys or indexes, on the topological path, on
\* the cycle fallback and for a Schema without tables.
C25_InputReadOnly == [][pc # "idle" => schema' = schema]_vars

\* the call returned, over the cycle fallback, for a Schema in which a foreign key
\* was resolved to a qualified name other than the name it is written with
C25_Witness ==
    /\ Returned
    /\ used_fallback
    /\ \E i \in DOMAIN Tables : \E k \in DOMAIN Tables[i].foreign_keys :
         /\ TargetOf(i, k) # Tables[i].foreign_keys[k].referenced_table
         /\ <<QN(i), TargetOf(i, k)>> \in g_edges

\* the same on the topological path
C25_WitnessTopological ==
    /\ Returned
    /\ hl_called = 1
    /\ ~used_fallback
    /\ \E i \in DOMAIN Tables : \E k \in DOMAIN Tables[i].foreign_keys :
         /\ TargetOf(i, k) # Tables[i].foreign_keys[k].referenced_table
         /\ <<QN(i), TargetOf(i, k)>> \in g_edges

\* the document of generate_drawio: cells + edges (line 72)
Document == drawio.cells \o drawio.edges

\* "cell-k" for k below 100
CellId(k) ==
    <<99, 101, 108, 108, 45>>
        \o (IF k < 10 THEN <<48 + k>> ELSE <<48 + (k \div 10), 48 + (k % 10)>>)

\* the number of cells of the tables before table i
RECURSIVE CellsBefore(_)
CellsBefore(i) == IF i <= 1 THEN 0 ELSE CellsBefore(i - 1) + 1 + Len(Out[i - 1].columns)

\* C26: generate_drawio resets the counter on entry, whatever an earlier call left
\* in it, and the ids of its document are pairwise distinct and are cell-1 ...
\* cell-N in the order of creation: every table followed by its columns, then
\* the edges.
C26_DrawioCellIds ==
    /\ gen_pc = "drawio_tables" => _cell_id_counter = 0 /\ Document = <<>>
    /\ gen_pc \in {"drawio_edges", "drawio_done"} =>
         /\ \A k \in DOMAIN Document : Document[k].id = CellId(k)
         /\ \A k, m \in DOMAIN Document : k # m => Document[k].id # Document[m].id
         /\ _cell_id_counter = Len(Document)
         /\ Len(drawio.cells) = CellsBefore(Len(Out) + 1)
         /\ \A i \in DOMAIN Out :
              /\ drawio.cells[CellsBefore(i) + 1].parent = S_root
              /\ \A c \in DOMAIN Out[i].columns :
                   drawio.cells[CellsBefore(i) + 1 + c].parent = CellId(CellsBefore(i) + 1)
         /\ \A k \in DOMAIN drawio.edges :
              /\ drawio.edges[k].id = CellId(Len(drawio.cells) + k)
              /\ drawio.edges[k].source \in { drawio.cells[m].id : m \in DOMAIN drawio.cells }
              /\ drawio.edges[k].target \in { drawio.cells[m].id : m \in DOMAIN drawio.cells }

\* a document of three tables with columns and of two edges or more was generated,
\* its last id having two digits
C26_Witness ==
    /\ gen_pc = "drawio_done"
    /\ Len(Out) = 3
    /\ \A i \in DOMAIN Out : Len(Out[i].columns) >= 1
    /\ Len(drawio.edges) >= 2
    /\ Len(Document) >= 10
    /\ _cell_id_counter = Len(Document)

====
